---------------------------- MODULE Spec2Model ----------------------------
(***************************************************************************)
(* Exchange adapters (app/binance.py, app/gate.py, app/okx.py) and the     *)
(* orchestration handlers of app/main.py (query_orders, cancel_orders,     *)
(* lookup_order), modelled as state machines.  The exchanges are the       *)
(* environment: every response an adapter receives is chosen without       *)
(* restriction among Responses / CancelResponses.                          *)
(*                                                                         *)
(* Representation of data                                                  *)
(*  - A JSON array of raw orders is a Batch: n object entries, then junk   *)
(*    entries that are not JSON objects; bad is the 1-based index of the   *)
(*    one object entry normalize_order raises on (0: none); last is the    *)
(*    ordId of the last object entry.                                      *)
(*  - A list of OrderItem is a sequence of chunks [src, page, n]: n orders *)
(*    in a row that came from the batch of request number page of source   *)
(*    src.                                                                 *)
(*  - Python's None and the empty string are both written "" where the     *)
(*    code only tests truthiness.                                          *)
(***************************************************************************)
EXTENDS Integers, Sequences, FiniteSets, TLC

VARIABLES
    pc,        \* position of the handler being run
    req,       \* the request payload the handler was called with
    cred,      \* what load_exchange_credentials returned
    selected,  \* query_orders: selected_sources
    idx,       \* index (1-based) of the source / order reference in progress
    fs,        \* the adapter call in progress (fetch_open_orders / fetch_order)
    orders,    \* QueryResponse.orders, as chunks
    errors,    \* QueryResponse.errors
    results,   \* CancelResponse.results
    outcome,   \* how the handler ended: "none", "result" or "abort"
    abort,     \* the exception that ended the handler without a result
    probes,    \* detect_account_mode: the probe responses received so far
    hist,      \* history: per finished source / reference, what the adapter did
    lastResp,  \* history: the response most recently received
    credentials_table,  \* db.py: the rows of the table credentials
    SESSION_STORE,      \* main.py: the sessions, by session id
    meta                \* db.py: the value of totp_secret_enc in the table meta

vars == <<pc, req, cred, selected, idx, fs, orders, errors, results,
          outcome, abort, probes, hist, lastResp, credentials_table,
          SESSION_STORE, meta>>

----------------------------------------------------------------------------
(* Bounds of the model *)

MaxPages == 3       \* requests one Gate fetch may make in the model
MaxOrderRefs == 2   \* order references in one cancel request
MaxRuns == 2        \* times one raw order is normalized
MaxOps == 2         \* credential requests in one behaviour
MaxNest == 8        \* depth of the deepest object of a probe body
MaxSessions == 2    \* sessions created by logins in one behaviour
MaxSends == 2       \* exchange requests of one operation

----------------------------------------------------------------------------
(* Program constants *)

PAGE_LIMIT == 100      \* limit=100 and the "< 100" tests of the page loops
OKX_MAX_ROUNDS == 20   \* for _ in range(20)
HTTP_OK == 200         \* if status != 200

EXCHANGE_BINANCE == "binance"
EXCHANGE_OKX == "okx"
EXCHANGE_GATE == "gate"
SUPPORTED_EXCHANGES == {EXCHANGE_BINANCE, EXCHANGE_OKX, EXCHANGE_GATE}

SOURCE_PAPI_UM == "papi_um"
SOURCE_PAPI_SPOT == "papi_spot"
SOURCE_FAPI_UM == "fapi_um"
SOURCE_SPOT == "spot"
BINANCE_SOURCES == {SOURCE_PAPI_UM, SOURCE_PAPI_SPOT, SOURCE_FAPI_UM, SOURCE_SPOT}

OKX_SOURCE_SWAP == "okx_swap"
OKX_SOURCE_SPOT == "okx_spot"
OKX_SOURCE_MARGIN == "okx_margin"
OKX_SOURCES == {OKX_SOURCE_SWAP, OKX_SOURCE_SPOT, OKX_SOURCE_MARGIN}

GATE_SOURCE_SPOT == "gate_spot"
GATE_SOURCE_FUTURES == "gate_futures"
GATE_SOURCES == {GATE_SOURCE_SPOT, GATE_SOURCE_FUTURES}

ACCOUNT_MODE_UNIFIED == "UNIFIED"
ACCOUNT_MODE_STANDARD == "STANDARD"

----------------------------------------------------------------------------
(* Helpers on sequences *)

RECURSIVE SumN(_)
SumN(s) == IF s = <<>> THEN 0 ELSE Head(s).n + SumN(Tail(s))


Is2xx(status) == 200 <= status /\ status < 300

----------------------------------------------------------------------------
(* Responses of the exchanges *)

EmptyBatch == [n |-> 0, bad |-> 0, junk |-> 0, last |-> ""]

\* Arrays an exchange may answer with.  A full page (n >= PAGE_LIMIT) is
\* clean here; a short one may hold an entry that cannot be normalized.
Batches ==
    { EmptyBatch,
      [n |-> 0, bad |-> 0, junk |-> 1, last |-> ""],
      [n |-> 1, bad |-> 0, junk |-> 0, last |-> "a"],
      [n |-> 1, bad |-> 1, junk |-> 0, last |-> "a"],
      [n |-> 2, bad |-> 1, junk |-> 0, last |-> "b"],
      [n |-> 2, bad |-> 2, junk |-> 0, last |-> "b"],
      [n |-> 1, bad |-> 0, junk |-> 1, last |-> "a"],
      [n |-> PAGE_LIMIT, bad |-> 0, junk |-> 0, last |-> "a"],
      [n |-> PAGE_LIMIT, bad |-> 0, junk |-> 0, last |-> "b"],
      [n |-> PAGE_LIMIT, bad |-> 0, junk |-> 0, last |-> ""],
      [n |-> PAGE_LIMIT - 1, bad |-> 0, junk |-> 1, last |-> "a"] }

\* A member of a JSON object that should hold an array: missing, an array,
\* or some other JSON value.
AbsentField == [k |-> "absent", list |-> EmptyBatch]
OtherField == [k |-> "other", list |-> EmptyBatch]
ListField(b) == [k |-> "list", list |-> b]

\* JSON scalars found under "code": j is the JSON type, s the text.
JAbsent == [j |-> "absent", s |-> ""]
JNull == [j |-> "null", s |-> ""]
JStr(s) == [j |-> "str", s |-> s]
JNum(s) == [j |-> "num", s |-> s]
JBool(s) == [j |-> "bool", s |-> s]

\* str(parsed.get(key, "")): the default "" for a missing key, "None" for
\* null, the text itself for a string, the decimal text for a number.
PyStr(v) ==
    CASE v.j = "absent" -> ""
      [] v.j = "null" -> "None"
      [] OTHER -> v.s

\* str.strip() on the texts of the model.
Strip(s) ==
    CASE s = " 0 " -> "0"
      [] s = " " -> ""
      [] s = " 1" -> "1"
      [] s = " standard " -> "standard"
      [] OTHER -> s

CodeValues ==
    {JAbsent, JNull, JStr(""), JStr("0"), JStr("1"), JStr(" 0 "), JNum("0"),
     JStr("51001")}

\* Bodies of the responses to fetch_open_orders / fetch_order.
\*   t = "notjson": json.loads raises;  "scalar": valid JSON, neither array
\*   nor object;  "list": a JSON array (list);  "obj": a JSON object with
\*   members orders (Gate), code / msg / data (OKX); poison says that the
\*   object itself, taken as one raw order, makes normalize_order raise.
Body(t, list, ordersF, code, data, poison) ==
    [t |-> t, list |-> list, orders |-> ordersF, code |-> code,
     msg |-> IF Strip(PyStr(code)) \in {"", "0"} THEN "" ELSE "rejected",
     data |-> data, poison |-> poison]

NotJsonBody == Body("notjson", EmptyBatch, AbsentField, JAbsent, AbsentField, FALSE)
ScalarBody == Body("scalar", EmptyBatch, AbsentField, JAbsent, AbsentField, FALSE)
ListBody(b) == Body("list", b, AbsentField, JAbsent, AbsentField, FALSE)
ObjBody(ordersF, code, data, poison) ==
    Body("obj", EmptyBatch, ordersF, code, data, poison)

FetchBodies ==
    {NotJsonBody, ScalarBody}
    \cup {ListBody(b) : b \in Batches}
    \cup {ObjBody(AbsentField, JAbsent, AbsentField, p) : p \in BOOLEAN}
    \cup {ObjBody(OtherField, JAbsent, AbsentField, FALSE)}
    \cup {ObjBody(ListField(b), JAbsent, AbsentField, FALSE) : b \in Batches}
    \cup {ObjBody(AbsentField, c, ListField(b), FALSE) :
              c \in {JStr("0"), JStr("1")}, b \in Batches}
    \cup {ObjBody(AbsentField, c, d, FALSE) :
              c \in CodeValues,
              d \in {AbsentField, OtherField,
                     ListField([n |-> 1, bad |-> 0, junk |-> 0, last |-> "a"])}}

Statuses == {200, 201, 299, 300, 404}

\* net = FALSE: httpx.request raised (timeout, connection error).
TransportError == [net |-> FALSE, status |-> 0, body |-> NotJsonBody]
Responses ==
    {TransportError}
    \cup {[net |-> TRUE, status |-> s, body |-> b] : s \in Statuses, b \in FetchBodies}

NoResp == [net |-> FALSE, status |-> -1, body |-> NotJsonBody]


----------------------------------------------------------------------------
(* The adapter call in progress.                                           *)
(*   st = "run": a request is to be sent; "ok": the call returned;         *)
(*   "err": the call raised err; "idle": no call.                          *)
(*   acc: the orders list built so far, one entry per batch extended.      *)

NoErr == [kind |-> "", status |-> 0, code |-> "", msg |-> ""]
Err(kind, status, code, msg) ==
    [kind |-> kind, status |-> status, code |-> code, msg |-> msg]

IdleFetch ==
    [ex |-> "", src |-> "", op |-> "", st |-> "idle", page |-> 0, rounds |-> 0,
     after |-> "", acc |-> <<>>, poison |-> FALSE, err |-> NoErr]

Running(ex, src, op) ==
    [IdleFetch EXCEPT !.ex = ex, !.src = src, !.op = op, !.st = "run", !.page = 1]

Raise(f, e) == [f EXCEPT !.st = "err", !.err = e]
Return(f) == [f EXCEPT !.st = "ok"]

\* [item for item in batch if isinstance(item, dict)], tagged with the
\* number of the request that returned it.
DictsOnly(b, page) ==
    [page |-> page, n |-> b.n, bad |-> b.bad, junk |-> 0, last |-> b.last]
Unfiltered(b, page) ==
    [page |-> page, n |-> b.n, bad |-> b.bad, junk |-> b.junk, last |-> b.last]

(* ------------------------------ binance.py ----------------------------- *)

\* raise RuntimeError(f"request failed ({status}): {body}") unless 200
BinanceStatusOk(status) == status = HTTP_OK

\* variant: a request that fails in transport is sent once more
binance_fetch_open_ordersMut(f, r) ==
    IF ~r.net /\ f.page = 1 THEN [f EXCEPT !.page = 2]
    ELSE IF ~r.net THEN Raise(f, Err("transport", 0, "", ""))
    ELSE IF ~BinanceStatusOk(r.status) THEN Raise(f, Err("status", r.status, "", ""))
    ELSE IF r.body.t = "notjson" THEN Raise(f, Err("json", r.status, "", ""))
    ELSE IF r.body.t # "list" THEN Raise(f, Err("shape", r.status, "", ""))
    ELSE Return([f EXCEPT !.acc = <<Unfiltered(r.body.list, 1)>>])
binance_fetch_open_orders(f, r) ==
    IF ~r.net THEN Raise(f, Err("transport", 0, "", ""))
    ELSE IF ~BinanceStatusOk(r.status) THEN Raise(f, Err("status", r.status, "", ""))
    ELSE IF r.body.t = "notjson" THEN Raise(f, Err("json", r.status, "", ""))
    ELSE IF r.body.t # "list" THEN Raise(f, Err("shape", r.status, "", ""))
    ELSE Return([f EXCEPT !.acc = <<Unfiltered(r.body.list, 1)>>])

\* fetch_order after its parameter checks: one GET, the body must be an object
binance_fetch_order(f, r) ==
    IF ~r.net THEN Raise(f, Err("transport", 0, "", ""))
    ELSE IF ~BinanceStatusOk(r.status) THEN Raise(f, Err("status", r.status, "", ""))
    ELSE IF r.body.t = "notjson" THEN Raise(f, Err("json", r.status, "", ""))
    ELSE IF r.body.t # "obj" THEN Raise(f, Err("shape", r.status, "", ""))
    ELSE Return([f EXCEPT !.poison = r.body.poison])

(* ------------------------------- gate.py ------------------------------- *)

GateStatusOk(status) == status = HTTP_OK

\* variant: a short batch does not end the loop
GatePageLoopMut(f, b) ==
    IF b.n = 0 THEN Return(f)
    ELSE [f EXCEPT !.acc = Append(f.acc, DictsOnly(b, f.page)), !.page = f.page + 1]
\* The tail of both page loops: stop on an empty batch, extend, stop on a
\* short batch, else page += 1.
GatePageLoop(f, b) ==
    IF b.n = 0 THEN Return(f)
    ELSE LET g == [f EXCEPT !.acc = Append(f.acc, DictsOnly(b, f.page))]
         IN  IF b.n < PAGE_LIMIT THEN Return(g)
             ELSE [g EXCEPT !.page = f.page + 1]

\* if isinstance(parsed, dict): batch = parsed.get("orders", [])
\* elif isinstance(parsed, list): batch = parsed  else: raise
GateSpotBatch(body) ==
    CASE body.t = "obj" ->
             IF body.orders.k = "absent" THEN ListField(EmptyBatch) ELSE body.orders
      [] body.t = "list" -> ListField(body.list)
      [] OTHER -> OtherField

fetch_spot_open_orders(f, r) ==
    IF ~r.net THEN Raise(f, Err("transport", 0, "", ""))
    ELSE IF ~GateStatusOk(r.status) THEN Raise(f, Err("status", r.status, "", ""))
    ELSE IF r.body.t = "notjson" THEN Raise(f, Err("json", r.status, "", ""))
    ELSE LET batch == GateSpotBatch(r.body)
         IN  IF batch.k # "list" THEN Raise(f, Err("shape", r.status, "", ""))
             ELSE GatePageLoop(f, batch.list)

\* if not isinstance(parsed, list): raise
GateFuturesBatch(body) ==
    IF body.t = "list" THEN ListField(body.list) ELSE OtherField

fetch_futures_open_orders(f, r) ==
    IF ~r.net THEN Raise(f, Err("transport", 0, "", ""))
    ELSE IF ~GateStatusOk(r.status) THEN Raise(f, Err("status", r.status, "", ""))
    ELSE IF r.body.t = "notjson" THEN Raise(f, Err("json", r.status, "", ""))
    ELSE LET batch == GateFuturesBatch(r.body)
         IN  IF batch.k # "list" THEN Raise(f, Err("shape", r.status, "", ""))
             ELSE GatePageLoop(f, batch.list)

\* fetch_order after its parameter checks (spot and futures alike)
gate_fetch_order(f, r) ==
    IF ~r.net THEN Raise(f, Err("transport", 0, "", ""))
    ELSE IF ~GateStatusOk(r.status) THEN Raise(f, Err("status", r.status, "", ""))
    ELSE IF r.body.t = "notjson" THEN Raise(f, Err("json", r.status, "", ""))
    ELSE IF r.body.t # "obj" THEN Raise(f, Err("shape", r.status, "", ""))
    ELSE Return([f EXCEPT !.poison = r.body.poison])

(* -------------------------------- okx.py ------------------------------- *)

OkxStatusOk(status) == status = HTTP_OK

\* parse_okx_response, for a body that is a JSON object:
\* (code in {"", "0"}, code, msg, data)
parse_okx_response(body) ==
    LET code == Strip(PyStr(body.code))
    IN  [ok |-> code \in {"", "0"}, code |-> code, msg |-> body.msg,
         data |-> body.data]

\* if not ok: raise RuntimeError(f"okx error code={code} msg={msg}")
OkxEnvelope(f, r) ==
    LET p == parse_okx_response(r.body)
    IN  IF ~p.ok THEN Raise(f, Err("business", r.status, p.code, p.msg))
        ELSE IF p.data.k # "list" THEN Raise(f, Err("shape", r.status, "", ""))
        ELSE f

\* The checks every OKX read makes on a response, in the order of the code;
\* the result is f unchanged when they all pass.
OkxChecked(f, r) ==
    IF ~r.net THEN Raise(f, Err("transport", 0, "", ""))
    ELSE IF ~OkxStatusOk(r.status) THEN Raise(f, Err("status", r.status, "", ""))
    ELSE IF r.body.t = "notjson" THEN Raise(f, Err("json", r.status, "", ""))
    ELSE IF r.body.t # "obj" THEN Raise(f, Err("shape", r.status, "", ""))
    ELSE OkxEnvelope(f, r)

\* variant: a cursor that repeats does not end the loop
okx_fetch_open_ordersMutRepeat(f, r) ==
    LET c == OkxChecked(f, r)
    IN  IF c.st = "err" THEN c
        ELSE LET b == r.body.data.list
                 g == [f EXCEPT !.acc = Append(f.acc, DictsOnly(b, f.page)),
                                !.rounds = f.rounds + 1]
                 last_ord_id == Strip(b.last)
             IN  IF b.n < PAGE_LIMIT THEN Return(g)
                 ELSE IF last_ord_id = "" THEN Return(g)
                 ELSE IF g.rounds >= OKX_MAX_ROUNDS THEN Return(g)
                 ELSE [g EXCEPT !.after = last_ord_id, !.page = f.page + 1]
\* variant: one round more than range(20)
okx_fetch_open_ordersMutCap(f, r) ==
    LET c == OkxChecked(f, r)
    IN  IF c.st = "err" THEN c
        ELSE LET b == r.body.data.list
                 g == [f EXCEPT !.acc = Append(f.acc, DictsOnly(b, f.page)),
                                !.rounds = f.rounds + 1]
                 last_ord_id == Strip(b.last)
             IN  IF b.n < PAGE_LIMIT THEN Return(g)
                 ELSE IF last_ord_id = "" \/ last_ord_id = f.after THEN Return(g)
                 ELSE IF g.rounds > OKX_MAX_ROUNDS THEN Return(g)
                 ELSE [g EXCEPT !.after = last_ord_id, !.page = f.page + 1]
\* One round of the for loop of fetch_open_orders; rounds counts the rounds
\* made, the request of this one included.
okx_fetch_open_orders(f, r) ==
    LET c == OkxChecked(f, r)
    IN  IF c.st = "err" THEN c
        ELSE LET b == r.body.data.list
                 g == [f EXCEPT !.acc = Append(f.acc, DictsOnly(b, f.page)),
                                !.rounds = f.rounds + 1]
                 last_ord_id == Strip(b.last)
             IN  IF b.n < PAGE_LIMIT THEN Return(g)
                 ELSE IF last_ord_id = "" \/ last_ord_id = f.after THEN Return(g)
                 ELSE IF g.rounds >= OKX_MAX_ROUNDS THEN Return(g)
                 ELSE [g EXCEPT !.after = last_ord_id, !.page = f.page + 1]

\* fetch_order after its parameter checks: data must be a non-empty list
\* whose first element is an object
okx_fetch_order(f, r) ==
    LET c == OkxChecked(f, r)
    IN  IF c.st = "err" THEN c
        ELSE LET b == r.body.data.list
             IN  IF b.n + b.junk = 0 THEN Raise(f, Err("notfound", r.status, "", ""))
                 ELSE IF b.n = 0 THEN Raise(f, Err("shape", r.status, "", ""))
                 ELSE Return([f EXCEPT !.poison = (b.bad = 1)])

(* ----------------------- dispatch on the exchange ---------------------- *)

\* What the adapter does with the response r to the request it has sent.
OnResponse(f, r) ==
    CASE f.ex = EXCHANGE_BINANCE /\ f.op = "list" -> binance_fetch_open_orders(f, r)
      [] f.ex = EXCHANGE_BINANCE /\ f.op = "order" -> binance_fetch_order(f, r)
      [] f.ex = EXCHANGE_OKX /\ f.op = "list" -> okx_fetch_open_orders(f, r)
      [] f.ex = EXCHANGE_OKX /\ f.op = "order" -> okx_fetch_order(f, r)
      [] f.ex = EXCHANGE_GATE /\ f.op = "order" -> gate_fetch_order(f, r)
      [] f.ex = EXCHANGE_GATE /\ f.src = GATE_SOURCE_SPOT -> fetch_spot_open_orders(f, r)
      [] OTHER -> fetch_futures_open_orders(f, r)

SourcesOf(ex) ==
    CASE ex = EXCHANGE_BINANCE -> BINANCE_SOURCES
      [] ex = EXCHANGE_OKX -> OKX_SOURCES
      [] ex = EXCHANGE_GATE -> GATE_SOURCES
      [] OTHER -> {}

\* fetch_open_orders(source, ...) up to its first request: an unknown source
\* raises ValueError before anything is sent.
fetch_open_orders(ex, src) ==
    IF src \in SourcesOf(ex) THEN Running(ex, src, "list")
    ELSE Raise(Running(ex, src, "list"), Err("unsupported", 0, "", ""))


----------------------------------------------------------------------------
(* main.py: helpers of the handlers *)

\* normalize_exchange: lower().strip(), and "okex" is OKX
normalize_exchange(raw) ==
    CASE raw = "okex" -> EXCHANGE_OKX
      [] raw = "OKX " -> EXCHANGE_OKX
      [] OTHER -> raw

\* normalize_label: strip()
normalize_label(raw) == Strip(raw)

\* variant: the text is taken as it is written
requested_modeMut(account_mode) == IF account_mode = "" THEN "AUTO" ELSE account_mode
\* options.account_mode.strip().upper() if options.account_mode else "AUTO"
requested_mode(account_mode) ==
    CASE account_mode = "" -> "AUTO"
      [] account_mode = "standard" -> "STANDARD"
      [] account_mode = " unified" -> "UNIFIED"
      [] OTHER -> account_mode

\* orders.extend(normalize_order(exchange, source, item) for item in raw):
\* the items are normalized and appended one by one, so that the orders of
\* the entries before the first one normalize_order raises on stay in the
\* list.  acc is raw, batch by batch.
Chunk(src, page, n) == [src |-> src, page |-> page, n |-> n]
AddChunk(o, src, page, n) == IF n > 0 THEN Append(o, Chunk(src, page, n)) ELSE o

RECURSIVE ExtendNormalized(_, _, _)
ExtendNormalized(o, src, acc) ==
    IF acc = <<>> THEN [orders |-> o, raised |-> FALSE]
    ELSE LET e == Head(acc)
         IN  IF e.bad > 0
             THEN [orders |-> AddChunk(o, src, e.page, e.bad - 1), raised |-> TRUE]
             ELSE IF e.junk > 0
             THEN [orders |-> AddChunk(o, src, e.page, e.n), raised |-> TRUE]
             ELSE ExtendNormalized(AddChunk(o, src, e.page, e.n), src, Tail(acc))

\* errors.append(f"{source}: {exc}")
ErrorEntry(src, e) == [source |-> src, err |-> e]
NormalizeErr == Err("normalize", 0, "", "")

----------------------------------------------------------------------------
(* binance.detect_account_mode *)

\* The body of a probe response: found is what parse_account_type returns
\* for the parsed body ("" for None).
AccountTypes == {"", "PORTFOLIO", ACCOUNT_MODE_UNIFIED, ACCOUNT_MODE_STANDARD, "MARGIN"}
ProbeResponses ==
    {[net |-> FALSE, status |-> 0, json |-> FALSE, found |-> ""]}
    \cup {[net |-> TRUE, status |-> s, json |-> FALSE, found |-> ""] : s \in Statuses}
    \cup {[net |-> TRUE, status |-> s, json |-> TRUE, found |-> a] :
              s \in Statuses, a \in AccountTypes}

\* data = json.loads(papi_body), {} when that fails;
\* account_type = parse_account_type(data) or "UNIFIED"
parse_account_type(r) == IF r.json THEN r.found ELSE ""

\* lines 231-237: the mode a 2xx unified probe resolves to
ModeOfUnifiedProbe(r) ==
    LET account_type == IF parse_account_type(r) = "" THEN ACCOUNT_MODE_UNIFIED
                        ELSE parse_account_type(r)
    IN  CASE account_type = "PORTFOLIO" -> ACCOUNT_MODE_UNIFIED
          [] account_type \in {ACCOUNT_MODE_UNIFIED, ACCOUNT_MODE_STANDARD} -> account_type
          [] OTHER -> ACCOUNT_MODE_UNIFIED

\* variant: the classic spot source is queried in both modes
DefaultBinanceSourcesMut(mode) ==
    IF mode = ACCOUNT_MODE_UNIFIED
    THEN <<SOURCE_PAPI_UM, SOURCE_PAPI_SPOT, SOURCE_FAPI_UM, SOURCE_SPOT>>
    ELSE <<SOURCE_FAPI_UM, SOURCE_SPOT>>
\* query_orders, lines 659-678: the default sources of a mode
DefaultBinanceSources(mode) ==
    IF mode = ACCOUNT_MODE_UNIFIED
    THEN <<SOURCE_PAPI_UM, SOURCE_PAPI_SPOT, SOURCE_FAPI_UM>>
    ELSE <<SOURCE_FAPI_UM, SOURCE_SPOT>>

----------------------------------------------------------------------------
(* load_exchange_credentials: what the vault answers.                      *)
(*   load = "ok": api key and secret decrypted; passphrase says whether an *)
(*   api passphrase is stored with them.  Otherwise an HTTPException.      *)

Credentials ==
    {[load |-> "ok", passphrase |-> TRUE],
     [load |-> "ok", passphrase |-> FALSE],
     [load |-> "missing", passphrase |-> FALSE],
     [load |-> "denied", passphrase |-> FALSE],
     [load |-> "undecryptable", passphrase |-> FALSE]}

NoCred == [load |-> "", passphrase |-> FALSE]

----------------------------------------------------------------------------
(* query_orders *)

Flag(b, src) == IF b THEN <<src>> ELSE <<>>

BinanceOptions ==
    {[account_mode |-> "AUTO", papi_um |-> a, papi_spot |-> b, fapi_um |-> c, spot |-> d] :
        a \in BOOLEAN, b \in BOOLEAN, c \in BOOLEAN, d \in BOOLEAN}
    \cup {[account_mode |-> m, papi_um |-> FALSE, papi_spot |-> FALSE,
           fapi_um |-> FALSE, spot |-> FALSE] :
             m \in {"", "UNIFIED", " unified", "STANDARD", "standard", "CLASSIC"}}
\* every choice of OKX sources but the one of all three
OkxOptions == [swap : BOOLEAN, spot : BOOLEAN, margin : BOOLEAN]
              \ {[swap |-> TRUE, spot |-> TRUE, margin |-> TRUE]}
GateOptions == [spot : BOOLEAN, futures : BOOLEAN]

QueryPayloads ==
    {[exchange |-> e, account |-> a, binance |-> o] :
        e \in {"binance"}, a \in {"main"}, o \in BinanceOptions}
    \cup {[exchange |-> e, account |-> a, okx |-> o] :
        e \in {"okx", "okex"}, a \in {"main"}, o \in OkxOptions}
    \cup {[exchange |-> e, account |-> a, gate |-> o] :
        e \in {"gate"}, a \in {"main", " "}, o \in GateOptions}
    \cup {[exchange |-> "kraken", account |-> "main"]}

\* lines 649-657, 692-700, 717-723: the sources the flags select
FlagSources(exchange, payload) ==
    CASE exchange = EXCHANGE_BINANCE ->
             Flag(payload.binance.papi_um, SOURCE_PAPI_UM)
             \o Flag(payload.binance.papi_spot, SOURCE_PAPI_SPOT)
             \o Flag(payload.binance.fapi_um, SOURCE_FAPI_UM)
             \o Flag(payload.binance.spot, SOURCE_SPOT)
      [] exchange = EXCHANGE_OKX ->
             LET sel == Flag(payload.okx.swap, OKX_SOURCE_SWAP)
                        \o Flag(payload.okx.spot, OKX_SOURCE_SPOT)
                        \o Flag(payload.okx.margin, OKX_SOURCE_MARGIN)
             IN  IF sel = <<>> THEN <<OKX_SOURCE_SWAP>> ELSE sel
      [] OTHER ->
             LET sel == Flag(payload.gate.spot, GATE_SOURCE_SPOT)
                        \o Flag(payload.gate.futures, GATE_SOURCE_FUTURES)
             IN  IF sel = <<>> THEN <<GATE_SOURCE_SPOT, GATE_SOURCE_FUTURES>> ELSE sel

\* line 702: if not api_passphrase (reached for OKX only)
\* variant: the passphrase is demanded of every exchange
OkxPassphraseMissingMut(exchange, c) == ~c.passphrase
OkxPassphraseMissing(exchange, c) == exchange = EXCHANGE_OKX /\ ~c.passphrase

Abort(kind) ==
    /\ pc' = "done"
    /\ outcome' = "abort"
    /\ abort' = kind

\* Enter the for loop over the sources src: the first adapter call starts.
BeginSources(ex, src) ==
    /\ pc' = "sources"
    /\ selected' = src
    /\ idx' = 1
    /\ fs' = fetch_open_orders(ex, src[1])
    /\ UNCHANGED <<outcome, abort>>

\* query_orders up to its first request to the exchange.
QueryStart(payload, c) ==
    /\ pc = "idle"
    /\ UNCHANGED <<credentials_table, SESSION_STORE, meta>>
    /\ req' = [payload EXCEPT !.exchange = normalize_exchange(payload.exchange),
                              !.account = normalize_label(payload.account)]
    /\ LET exchange == normalize_exchange(payload.exchange)
           label == normalize_label(payload.account)
       IN  IF exchange \notin SUPPORTED_EXCHANGES
           THEN Abort("unsupported exchange") /\ UNCHANGED <<cred, selected, idx, fs>>
           ELSE IF label = ""
           THEN Abort("account required") /\ UNCHANGED <<cred, selected, idx, fs>>
           ELSE IF c.load # "ok"
           THEN Abort("credentials") /\ cred' = c /\ UNCHANGED <<selected, idx, fs>>
           ELSE /\ cred' = c
                /\ LET sel == FlagSources(exchange, payload)
                   IN  CASE exchange = EXCHANGE_BINANCE /\ sel = <<>> ->
                                LET mode == requested_mode(payload.binance.account_mode)
                                IN  IF mode \in {ACCOUNT_MODE_UNIFIED, ACCOUNT_MODE_STANDARD}
                                    THEN BeginSources(exchange, DefaultBinanceSources(mode))
                                    ELSE /\ pc' = "probe_papi"
                                         /\ UNCHANGED <<selected, idx, fs, outcome, abort>>
                         [] OkxPassphraseMissing(exchange, c) ->
                                /\ selected' = sel
                                /\ Abort("okx passphrase required")
                                /\ UNCHANGED <<idx, fs>>
                         [] OTHER -> BeginSources(exchange, sel)
    /\ UNCHANGED <<orders, errors, results, probes, hist, lastResp>>

\* detect_account_mode: the unified (PAPI) probe and what follows it.
ProbeUnified(r) ==
    /\ pc = "probe_papi"
    /\ UNCHANGED <<credentials_table, SESSION_STORE, meta>>
    /\ probes' = Append(probes, [ep |-> "papi", net |-> r.net, status |-> r.status,
                                  mode |-> IF r.net /\ Is2xx(r.status)
                                           THEN ModeOfUnifiedProbe(r) ELSE ""])
    /\ IF ~r.net
       THEN Abort("probe transport") /\ UNCHANGED <<selected, idx, fs>>
       ELSE IF Is2xx(r.status)
       THEN BeginSources(EXCHANGE_BINANCE, DefaultBinanceSources(ModeOfUnifiedProbe(r)))
       ELSE /\ pc' = "probe_fapi"
            /\ UNCHANGED <<selected, idx, fs, outcome, abort>>
    /\ UNCHANGED <<req, cred, orders, errors, results, hist, lastResp>>

\* detect_account_mode: the classic (FAPI) probe.
ProbeClassic(r) ==
    /\ pc = "probe_fapi"
    /\ UNCHANGED <<credentials_table, SESSION_STORE, meta>>
    /\ probes' = Append(probes, [ep |-> "fapi", net |-> r.net, status |-> r.status,
                                  mode |-> IF r.net /\ Is2xx(r.status)
                                           THEN ACCOUNT_MODE_STANDARD ELSE ""])
    /\ IF ~r.net
       THEN Abort("probe transport") /\ UNCHANGED <<selected, idx, fs>>
       ELSE IF Is2xx(r.status)
       THEN BeginSources(EXCHANGE_BINANCE, DefaultBinanceSources(ACCOUNT_MODE_STANDARD))
       ELSE Abort("account mode undetermined") /\ UNCHANGED <<selected, idx, fs>>
    /\ UNCHANGED <<req, cred, orders, errors, results, hist, lastResp>>

\* The try block of one source ended with an exception e:
\* errors.append(f"{source}: {exc}"), orders as they are.
\* variant: a failure drops the orders gathered so far
SourceFailedMutDiscard(o, er, src, e) ==
    [orders |-> <<>>, errors |-> Append(er, ErrorEntry(src, e))]
\* variant: the entry does not name the source
SourceFailedMutLabel(o, er, src, e) ==
    [orders |-> o, errors |-> Append(er, ErrorEntry("", e))]
SourceFailed(o, er, src, e) ==
    [orders |-> o, errors |-> Append(er, ErrorEntry(src, e))]

\* The try block of one source, from the return of fetch_open_orders on.
SourceFetched(o, er, src, acc) ==
    LET x == ExtendNormalized(o, src, acc)
    IN  IF x.raised THEN SourceFailed(x.orders, er, src, NormalizeErr)
        ELSE [orders |-> x.orders, errors |-> er]

\* One request of the adapter call of the source in progress, its response,
\* and everything query_orders does until the next request or its return.
QuerySourceStep(r) ==
    /\ pc = "sources"
    /\ UNCHANGED <<credentials_table, SESSION_STORE, meta>>
    /\ fs.st = "run"
    /\ fs.page <= MaxPages
    /\ LET f == OnResponse(fs, r)
           src == selected[idx]
       IN  IF f.st = "run"
           THEN /\ fs' = f
                /\ UNCHANGED <<pc, idx, orders, errors, outcome, hist>>
           ELSE LET res == IF f.st = "ok" THEN SourceFetched(orders, errors, src, f.acc)
                           ELSE SourceFailed(orders, errors, src, f.err)
                IN  /\ orders' = res.orders
                    /\ errors' = res.errors
                    /\ hist' = Append(hist, [source |-> src, fetched |-> f.st = "ok",
                                             acc |-> f.acc, requests |-> fs.page])
                    /\ idx' = idx + 1
                    /\ IF idx < Len(selected)
                       THEN /\ fs' = fetch_open_orders(fs.ex, selected[idx + 1])
                            /\ UNCHANGED <<pc, outcome>>
                       ELSE /\ fs' = IdleFetch
                            /\ pc' = "done"
                            /\ outcome' = "result"
    /\ UNCHANGED <<req, cred, selected, results, abort, probes, lastResp>>

\* The responses the query specification draws from: one of each kind the
\* adapters tell apart.
QueryBatches ==
    { EmptyBatch,
      [n |-> 0, bad |-> 0, junk |-> 1, last |-> ""],
      [n |-> 1, bad |-> 0, junk |-> 0, last |-> "a"],
      [n |-> 2, bad |-> 1, junk |-> 0, last |-> "b"],
      [n |-> 2, bad |-> 2, junk |-> 0, last |-> "b"],
      [n |-> PAGE_LIMIT, bad |-> 0, junk |-> 0, last |-> "a"],
      [n |-> PAGE_LIMIT, bad |-> 0, junk |-> 0, last |-> "b"] }
QueryResponses ==
    {TransportError,
     [net |-> TRUE, status |-> 404, body |-> NotJsonBody],
     [net |-> TRUE, status |-> 200, body |-> NotJsonBody],
     [net |-> TRUE, status |-> 200, body |-> ScalarBody]}
    \cup {[net |-> TRUE, status |-> 200, body |-> ListBody(b)] : b \in QueryBatches}
    \cup {[net |-> TRUE, status |-> 200,
           body |-> ObjBody(AbsentField, c, ListField(b), FALSE)] :
              c \in {JStr("0"), JStr("1")}, b \in QueryBatches}

\* db.get_meta(conn, TOTP_META_KEY) is None: no TOTP secret is stored; else
\* the secret and the key of the fernet it was encrypted with.
NoMeta == [set |-> FALSE, secret |-> "", key |-> ""]

InitCommon ==
    /\ SESSION_STORE = <<>>
    /\ meta = NoMeta
    /\ req = [exchange |-> "", account |-> ""]
    /\ cred = NoCred
    /\ selected = <<>>
    /\ idx = 0
    /\ fs = IdleFetch
    /\ orders = <<>>
    /\ errors = <<>>
    /\ results = <<>>
    /\ outcome = "none"
    /\ abort = ""
    /\ probes = <<>>
    /\ hist = <<>>
    /\ credentials_table = {}

Init == pc = "idle" /\ InitCommon /\ lastResp = NoResp

Next ==
    \/ \E p \in QueryPayloads, c \in Credentials : QueryStart(p, c)
    \/ \E r \in ProbeResponses : ProbeUnified(r)
    \/ \E r \in ProbeResponses : ProbeClassic(r)
    \/ \E r \in QueryResponses : QuerySourceStep(r)

Spec == Init /\ [][Next]_vars


----------------------------------------------------------------------------
(* cancel_order of the three adapters, up to the request: either an        *)
(* exception (raise # "") or the request sent: key names the identifier    *)
(* parameter it carries, symbol says whether it carries the symbol.        *)

CancelRaise(msg) == [raise |-> msg, key |-> "", symbol |-> FALSE]
CancelSend(key, withSymbol) == [raise |-> "", key |-> key, symbol |-> withSymbol]

\* variant: a reference without identifier is sent all the same
binance_cancel_orderMut(ref) ==
    IF ref.source \notin BINANCE_SOURCES THEN CancelRaise("unsupported source")
    ELSE IF ref.order_id # "" THEN CancelSend("orderId", TRUE)
    ELSE CancelSend("origClientOrderId", TRUE)
binance_cancel_order(ref) ==
    IF ref.source \notin BINANCE_SOURCES THEN CancelRaise("unsupported source")
    ELSE IF ref.order_id # "" THEN CancelSend("orderId", TRUE)
    ELSE IF ref.client_order_id # "" THEN CancelSend("origClientOrderId", TRUE)
    ELSE CancelRaise("order_id or client_order_id required")

\* variant: the client order id is looked at first
okx_cancel_orderMut(ref) ==
    IF ref.source \notin OKX_SOURCES THEN CancelRaise("unsupported source")
    ELSE IF ref.symbol = "" THEN CancelRaise("symbol required for okx cancel")
    ELSE IF ref.client_order_id # "" THEN CancelSend("clOrdId", TRUE)
    ELSE IF ref.order_id # "" THEN CancelSend("ordId", TRUE)
    ELSE CancelRaise("order_id or client_order_id required")
okx_cancel_order(ref) ==
    IF ref.source \notin OKX_SOURCES THEN CancelRaise("unsupported source")
    ELSE IF ref.symbol = "" THEN CancelRaise("symbol required for okx cancel")
    ELSE IF ref.order_id # "" THEN CancelSend("ordId", TRUE)
    ELSE IF ref.client_order_id # "" THEN CancelSend("clOrdId", TRUE)
    ELSE CancelRaise("order_id or client_order_id required")

\* variant: a client order id stands in for a missing order id
gate_cancel_orderMut(ref) ==
    IF ref.order_id = "" /\ ref.client_order_id = ""
    THEN CancelRaise("order_id required for gate cancel")
    ELSE IF ref.source = GATE_SOURCE_SPOT
    THEN IF ref.symbol = "" THEN CancelRaise("symbol required for gate spot cancel")
         ELSE CancelSend("order_id", TRUE)
    ELSE IF ref.source = GATE_SOURCE_FUTURES
    THEN CancelSend("order_id", ref.symbol # "")
    ELSE CancelRaise("unsupported source")
gate_cancel_order(ref) ==
    IF ref.order_id = "" THEN CancelRaise("order_id required for gate cancel")
    ELSE IF ref.source = GATE_SOURCE_SPOT
    THEN IF ref.symbol = "" THEN CancelRaise("symbol required for gate spot cancel")
         ELSE CancelSend("order_id", TRUE)
    ELSE IF ref.source = GATE_SOURCE_FUTURES
    THEN CancelSend("order_id", ref.symbol # "")
    ELSE CancelRaise("unsupported source")

----------------------------------------------------------------------------
(* Responses to a cancel request.  The body is text; what json.loads makes *)
(* of it: t = "notjson", "scalar" (valid JSON, not an object) or "obj"     *)
(* with members code and data; a data list is a sequence of elements,      *)
(* each an object (dict) with member sCode or something else.              *)

SCodeItems ==
    {[dict |-> TRUE, sCode |-> v] :
        v \in {JAbsent, JNull, JStr(""), JStr("0"), JStr("1"), JStr(" 0 "), JNum("0")}}
    \cup {[dict |-> FALSE, sCode |-> JAbsent]}

NoItems == [k |-> "absent", items |-> <<>>]
CancelData ==
    {NoItems, [k |-> "other", items |-> <<>>], [k |-> "list", items |-> <<>>]}
    \cup {[k |-> "list", items |-> <<a>>] : a \in SCodeItems}
    \cup {[k |-> "list", items |-> <<a, b>>] :
             a \in SCodeItems,
             b \in {[dict |-> TRUE, sCode |-> v] : v \in {JStr("0"), JStr("1")}}}

CancelBodies ==
    {[t |-> "notjson", code |-> JAbsent, data |-> NoItems],
     [t |-> "scalar", code |-> JAbsent, data |-> NoItems]}
    \cup {[t |-> "obj", code |-> c, data |-> d] : c \in CodeValues, d \in CancelData}

CancelTransportError ==
    [net |-> FALSE, status |-> 0, body |-> [t |-> "notjson", code |-> JAbsent, data |-> NoItems]]
CancelResponses ==
    {CancelTransportError}
    \cup {[net |-> TRUE, status |-> s, body |-> b] : s \in Statuses, b \in CancelBodies}

NoCancelResp ==
    [net |-> FALSE, status |-> -1, body |-> [t |-> "notjson", code |-> JAbsent, data |-> NoItems]]

\* A few responses, for requests with several order references.
FewCancelResponses ==
    {CancelTransportError}
    \cup {[net |-> TRUE, status |-> s, body |-> [t |-> "obj", code |-> c, data |-> d]] :
            s \in {200, 404},
            c \in {JStr("0"), JStr("1")},
            d \in {[k |-> "list", items |-> <<[dict |-> TRUE, sCode |-> v]>>] :
                      v \in {JStr("0"), JStr("1")}}}

\* is_okx_cancel_success(status, body)
SCodeOk(item) == ~item.dict \/ Strip(PyStr(item.sCode)) \in {"", "0"}

\* variant: the sCode of the data elements is not looked at
is_okx_cancel_successMut(status, body) ==
    /\ Is2xx(status)
    /\ body.t = "obj"
    /\ Strip(PyStr(body.code)) \in {"", "0"}
is_okx_cancel_success(status, body) ==
    /\ Is2xx(status)
    /\ body.t = "obj"
    /\ Strip(PyStr(body.code)) \in {"", "0"}
    /\ body.data.k = "list" =>
          \A i \in DOMAIN body.data.items : SCodeOk(body.data.items[i])

----------------------------------------------------------------------------
(* cancel_orders *)

CancelResult(id, ok, status, message) ==
    [id |-> id, ok |-> ok, status |-> status, message |-> message]

\* One pass of the for loop of cancel_orders over the reference ref, the
\* exchange answering r if a request is sent: the CancelResult appended and
\* what was sent.
\* variant: the outcome does not carry the id of the reference
CancelOneMutLostId(exchange, ref, c, r) ==
    [result |-> CancelResult("", FALSE, 0, "failed"), sent |-> FALSE, key |-> "",
     symbol |-> FALSE]
CancelOne(exchange, ref, c, r) ==
    LET failed(msg) ==
            [result |-> CancelResult(ref.id, FALSE, 0, msg), sent |-> FALSE,
             key |-> "", symbol |-> FALSE]
        call == CASE exchange = EXCHANGE_BINANCE -> binance_cancel_order(ref)
                  [] exchange = EXCHANGE_OKX -> okx_cancel_order(ref)
                  [] OTHER -> gate_cancel_order(ref)
        ok_flag == IF exchange = EXCHANGE_OKX
                   THEN is_okx_cancel_success(r.status, r.body)
                   ELSE Is2xx(r.status)
    IN  IF ref.symbol = "" THEN failed("missing symbol")
        ELSE IF exchange = EXCHANGE_OKX /\ ~c.passphrase
        THEN failed("OKX api_passphrase is required")
        ELSE IF call.raise # "" THEN failed(call.raise)
        ELSE IF ~r.net
        THEN [result |-> CancelResult(ref.id, FALSE, 0, "transport error"),
              sent |-> TRUE, key |-> call.key, symbol |-> call.symbol]
        ELSE [result |-> CancelResult(ref.id, ok_flag, r.status, "body"),
              sent |-> TRUE, key |-> call.key, symbol |-> call.symbol]

OrderRef(id, source, symbol, order_id, client_order_id) ==
    [id |-> id, source |-> source, symbol |-> symbol, order_id |-> order_id,
     client_order_id |-> client_order_id]

\* The order references of the model: every combination of a source, a
\* symbol, an order id and a client order id, each present or not.
RefSources(exchange) ==
    CASE exchange = EXCHANGE_BINANCE -> {SOURCE_FAPI_UM, "bogus"}
      [] exchange = EXCHANGE_OKX -> {OKX_SOURCE_SWAP, "bogus"}
      [] OTHER -> {GATE_SOURCE_SPOT, GATE_SOURCE_FUTURES, "bogus"}
OrderRefs(exchange) ==
    {OrderRef(i, s, y, o, k) :
        i \in {"x"}, s \in RefSources(exchange), y \in {"", "BTCUSDT"},
        o \in {"", "123"}, k \in {"", "c1"}}
    \cup {OrderRef("y", s, "BTCUSDT", "123", "") : s \in RefSources(exchange)}

\* A few references, for requests with several of them.
FewOrderRefs(exchange) ==
    LET s == CHOOSE x \in RefSources(exchange) : x \in SourcesOf(exchange)
    IN  {OrderRef("x", s, "BTCUSDT", "123", ""),
         OrderRef("y", s, "BTCUSDT", "", ""),
         OrderRef("z", s, "", "123", ""),
         OrderRef("x", "bogus", "BTCUSDT", "123", "c1")}

RECURSIVE SeqsUpTo(_, _)
SeqsUpTo(S, n) ==
    IF n = 0 THEN {<<>>}
    ELSE LET shorter == SeqsUpTo(S, n - 1)
         IN  shorter \cup {Append(q, x) : q \in {t \in shorter : Len(t) = n - 1}, x \in S}

CancelPayloads ==
    {[exchange |-> e, account |-> "main", orders |-> os] :
        e \in {"binance", "okx", "gate"}, os \in {<<>>}}
    \cup UNION {{[exchange |-> e, account |-> "main", orders |-> os] :
                    os \in SeqsUpTo(FewOrderRefs(normalize_exchange(e)), MaxOrderRefs)} :
                e \in {"binance", "okex", "gate"}}
    \cup {[exchange |-> "kraken", account |-> "main", orders |-> <<>>],
          [exchange |-> "gate", account |-> " ", orders |-> <<>>]}

OneCancelPayloads ==
    UNION {{[exchange |-> e, account |-> "main", orders |-> <<ref>>] :
               ref \in OrderRefs(e)} : e \in SUPPORTED_EXCHANGES}

\* cancel_orders up to the for loop.
CancelStart(payload, c) ==
    /\ pc = "idle"
    /\ UNCHANGED <<credentials_table, SESSION_STORE, meta>>
    /\ req' = [payload EXCEPT !.exchange = normalize_exchange(payload.exchange),
                              !.account = normalize_label(payload.account)]
    /\ LET exchange == normalize_exchange(payload.exchange)
           label == normalize_label(payload.account)
       IN  IF exchange \notin SUPPORTED_EXCHANGES
           THEN Abort("unsupported exchange") /\ UNCHANGED <<cred, idx>>
           ELSE IF label = ""
           THEN Abort("account required") /\ UNCHANGED <<cred, idx>>
           ELSE IF c.load # "ok"
           THEN Abort("credentials") /\ cred' = c /\ UNCHANGED idx
           ELSE /\ cred' = c
                /\ idx' = 1
                /\ IF payload.orders = <<>>
                   THEN pc' = "done" /\ outcome' = "result"
                   ELSE pc' = "cancel" /\ UNCHANGED outcome
                /\ UNCHANGED abort
    /\ UNCHANGED <<selected, fs, orders, errors, results, probes, hist, lastResp>>

\* One pass of the for loop: the reference number idx.
CancelStep(r) ==
    /\ pc = "cancel"
    /\ UNCHANGED <<credentials_table, SESSION_STORE, meta>>
    /\ LET ref == req.orders[idx]
           one == CancelOne(req.exchange, ref, cred, r)
       IN  /\ results' = Append(results, one.result)
           /\ hist' = Append(hist, [id |-> ref.id, sent |-> one.sent, key |-> one.key,
                                    symbol |-> one.symbol])
           /\ lastResp' = IF one.sent THEN r ELSE NoCancelResp
    /\ idx' = idx + 1
    /\ IF idx < Len(req.orders)
       THEN UNCHANGED <<pc, outcome>>
       ELSE pc' = "done" /\ outcome' = "result"
    /\ UNCHANGED <<req, cred, selected, fs, orders, errors, abort, probes>>

InitCancel == pc = "idle" /\ InitCommon /\ lastResp = NoCancelResp

\* cancel requests of up to MaxOrderRefs references
NextCancel ==
    \/ \E p \in CancelPayloads, c \in Credentials : CancelStart(p, c)
    \/ \E r \in FewCancelResponses : CancelStep(r)

SpecCancel == InitCancel /\ [][NextCancel]_vars

\* cancel requests of one reference, against every response
NextCancelOne ==
    \/ \E p \in OneCancelPayloads, c \in Credentials : CancelStart(p, c)
    \/ \E r \in CancelResponses : CancelStep(r)

SpecCancelOne == InitCancel /\ [][NextCancelOne]_vars

----------------------------------------------------------------------------
(* fetch_order of the three adapters, up to the request. *)

binance_fetch_order_request(source, symbol, order_id, client_order_id) ==
    IF source \notin BINANCE_SOURCES THEN CancelRaise("unsupported source")
    ELSE IF order_id # "" THEN CancelSend("orderId", TRUE)
    ELSE IF client_order_id # "" THEN CancelSend("origClientOrderId", TRUE)
    ELSE CancelRaise("order_id or client_order_id required")

okx_fetch_order_request(source, symbol, order_id, client_order_id) ==
    IF source \notin OKX_SOURCES THEN CancelRaise("unsupported source")
    ELSE IF symbol = "" THEN CancelRaise("symbol required")
    ELSE IF order_id # "" THEN CancelSend("ordId", TRUE)
    ELSE IF client_order_id # "" THEN CancelSend("clOrdId", TRUE)
    ELSE CancelRaise("order_id or client_order_id required")

gate_fetch_order_request(source, symbol, order_id, client_order_id) ==
    IF order_id = "" THEN CancelRaise("order_id required for gate lookup")
    ELSE IF source = GATE_SOURCE_SPOT
    THEN IF symbol = "" THEN CancelRaise("symbol required for gate spot lookup")
         ELSE CancelSend("order_id", TRUE)
    ELSE IF source = GATE_SOURCE_FUTURES
    THEN CancelSend("order_id", symbol # "")
    ELSE CancelRaise("unsupported source")

----------------------------------------------------------------------------
(* lookup_order *)

\* str.upper() on the texts of the model.
Upper(s) ==
    CASE s = "btcusdt" -> "BTCUSDT"
      [] s = "None" -> "NONE"
      [] s = "standard" -> "STANDARD"
      [] OTHER -> s

LookupPayloads ==
    UNION {{[exchange |-> e, account |-> "main", source |-> src, symbol |-> y,
             order_id |-> o, client_order_id |-> k] :
               src \in SourcesOf(normalize_exchange(e)) \cup {"bogus"},
               y \in {"", " ", "btcusdt"}, o \in {"", "123"}, k \in {"", "c1"}} :
           e \in {"binance", "okex", "gate"}}
    \cup {[exchange |-> "kraken", account |-> "main", source |-> "spot",
           symbol |-> "btcusdt", order_id |-> "123", client_order_id |-> ""],
          [exchange |-> "gate", account |-> " ", source |-> GATE_SOURCE_SPOT,
           symbol |-> "btcusdt", order_id |-> "123", client_order_id |-> ""]}

\* lines 885-904: the checks of the handler on the source, the symbol and
\* the identifiers; "" when they pass, else the detail of the HTTP 400.
\* variant: the handler checks nothing
LookupRejectedMut(exchange, source, symbol, order_id, client_order_id) == ""
LookupRejected(exchange, source, symbol, order_id, client_order_id) ==
    IF source \notin SourcesOf(exchange) THEN "unsupported source"
    ELSE IF symbol = "" THEN "symbol required"
    ELSE IF exchange = EXCHANGE_GATE
    THEN IF order_id = "" THEN "gate lookup requires order_id" ELSE ""
    ELSE IF order_id = "" /\ client_order_id = ""
    THEN "order id or client order id required"
    ELSE ""

\* errors.append(f"{source}: {exc}"), nothing appended to orders
\* variant: the exception is swallowed
LookupFailedMut(src, e) ==
    /\ pc' = "done"
    /\ outcome' = "result"
    /\ errors' = errors
    /\ UNCHANGED <<orders, abort>>
LookupFailed(src, e) ==
    /\ pc' = "done"
    /\ outcome' = "result"
    /\ errors' = Append(errors, ErrorEntry(src, e))
    /\ UNCHANGED <<orders, abort>>

\* lookup_order up to the request of the adapter.
LookupStart(payload, c) ==
    /\ pc = "idle"
    /\ UNCHANGED <<credentials_table, SESSION_STORE, meta>>
    /\ LET exchange == normalize_exchange(payload.exchange)
           label == normalize_label(payload.account)
           source == Strip(payload.source)
           symbol == Upper(Strip(payload.symbol))
           order_id == Strip(payload.order_id)
           client_order_id == Strip(payload.client_order_id)
           rejected == LookupRejected(exchange, source, symbol, order_id, client_order_id)
           call == CASE exchange = EXCHANGE_BINANCE ->
                          binance_fetch_order_request(source, symbol, order_id, client_order_id)
                     [] exchange = EXCHANGE_OKX ->
                          okx_fetch_order_request(source, symbol, order_id, client_order_id)
                     [] OTHER ->
                          gate_fetch_order_request(source, symbol, order_id, client_order_id)
       IN  /\ req' = [payload EXCEPT !.exchange = exchange, !.account = label,
                                     !.source = source, !.symbol = symbol]
           /\ IF exchange \notin SUPPORTED_EXCHANGES
              THEN Abort("unsupported exchange") /\ UNCHANGED <<cred, fs, hist, orders, errors>>
              ELSE IF label = ""
              THEN Abort("account required") /\ UNCHANGED <<cred, fs, hist, orders, errors>>
              ELSE IF rejected # ""
              THEN Abort(rejected) /\ UNCHANGED <<cred, fs, hist, orders, errors>>
              ELSE IF c.load # "ok"
              THEN Abort("credentials") /\ cred' = c /\ UNCHANGED <<fs, hist, orders, errors>>
              ELSE /\ cred' = c
                   /\ IF exchange = EXCHANGE_OKX /\ ~c.passphrase
                      THEN /\ LookupFailed(source, Err("passphrase", 0, "", ""))
                           /\ hist' = <<[id |-> "", sent |-> FALSE, key |-> "",
                                         symbol |-> FALSE]>>
                           /\ UNCHANGED fs
                      ELSE IF call.raise # ""
                      THEN /\ LookupFailed(source, Err("params", 0, "", call.raise))
                           /\ hist' = <<[id |-> "", sent |-> FALSE, key |-> "",
                                         symbol |-> FALSE]>>
                           /\ UNCHANGED fs
                      ELSE /\ fs' = Running(exchange, source, "order")
                           /\ hist' = <<[id |-> "", sent |-> TRUE, key |-> call.key,
                                         symbol |-> call.symbol]>>
                           /\ pc' = "lookup"
                           /\ UNCHANGED <<orders, errors, outcome, abort>>
    /\ UNCHANGED <<selected, idx, results, probes, lastResp>>

\* The response to the request of the adapter, then
\* orders.append(normalize_order(exchange, source, raw)).
LookupResponse(r) ==
    /\ pc = "lookup"
    /\ UNCHANGED <<credentials_table, SESSION_STORE, meta>>
    /\ LET f == OnResponse(fs, r)
       IN  /\ fs' = f
           /\ IF f.st = "err" THEN LookupFailed(f.src, f.err)
              ELSE IF f.poison THEN LookupFailed(f.src, NormalizeErr)
              ELSE /\ orders' = Append(orders, Chunk(f.src, 1, 1))
                   /\ pc' = "done"
                   /\ outcome' = "result"
                   /\ UNCHANGED <<errors, abort>>
    /\ lastResp' = r
    /\ UNCHANGED <<req, cred, selected, idx, results, probes, hist>>

NextLookup ==
    \/ \E p \in LookupPayloads, c \in Credentials : LookupStart(p, c)
    \/ \E r \in Responses : LookupResponse(r)

SpecLookup == Init /\ [][NextLookup]_vars

----------------------------------------------------------------------------
(* One call of an adapter's fetch_open_orders or fetch_order, against      *)
(* every response.                                                         *)

FetchStart(ex, src, op) ==
    /\ pc = "idle"
    /\ UNCHANGED <<credentials_table, SESSION_STORE, meta>>
    /\ op = "list" \/ src \in SourcesOf(ex)
    /\ pc' = "fetch"
    /\ fs' = IF op = "list" THEN fetch_open_orders(ex, src) ELSE Running(ex, src, "order")
    /\ UNCHANGED <<req, cred, selected, idx, orders, errors, results, outcome, abort,
                   probes, hist, lastResp>>

FetchResponse(r) ==
    /\ pc = "fetch"
    /\ UNCHANGED <<credentials_table, SESSION_STORE, meta>>
    /\ fs.st = "run"
    /\ fs.page <= MaxPages
    /\ fs' = OnResponse(fs, r)
    /\ lastResp' = r
    /\ UNCHANGED <<pc, req, cred, selected, idx, orders, errors, results, outcome,
                   abort, probes, hist>>

NextFetch ==
    \/ \E ex \in SUPPORTED_EXCHANGES, op \in {"list", "order"} :
          \E src \in SourcesOf(ex) \cup {"bogus"} : FetchStart(ex, src, op)
    \/ \E r \in Responses : FetchResponse(r)

SpecFetch == Init /\ [][NextFetch]_vars

----------------------------------------------------------------------------
(* Properties of query_orders, under Spec.                                 *)
(* hist holds one entry per source processed: whether fetch_open_orders    *)
(* returned (fetched) and the raw orders it had collected (acc).           *)

\* Every raw order of acc can be normalized.
Normalizable(acc) == \A i \in DOMAIN acc : acc[i].bad = 0 /\ acc[i].junk = 0

\* The raw orders of acc that can be normalized, counted.
RECURSIVE NormalizableCount(_)
NormalizableCount(acc) ==
    IF acc = <<>> THEN 0
    ELSE Head(acc).n - (IF Head(acc).bad > 0 THEN 1 ELSE 0) + NormalizableCount(Tail(acc))

\* The orders of the result that carry the source src, in their order.
OrdersOf(src) == SelectSeq(orders, LAMBDA c : c.src = src)

\* The normalized orders of acc, batch by batch.
RECURSIVE AllNormalized(_, _)
AllNormalized(src, acc) ==
    IF acc = <<>> THEN <<>>
    ELSE (IF Head(acc).n > 0 THEN <<Chunk(src, Head(acc).page, Head(acc).n)>> ELSE <<>>)
         \o AllNormalized(src, Tail(acc))

PositionIn(seq, x) == CHOOSE i \in DOMAIN seq : seq[i] = x

InSourceOrder ==
    \A j \in DOMAIN orders : \A k \in DOMAIN orders :
        j < k => PositionIn(selected, orders[j].src) <= PositionIn(selected, orders[k].src)

\* C1 as stated: the result holds the normalized orders of every source
\* whose fetch succeeded, in source-processing order.
C1_Original ==
    /\ \A i \in DOMAIN hist :
          hist[i].fetched =>
             SumN(OrdersOf(hist[i].source)) = NormalizableCount(hist[i].acc)
    /\ InSourceOrder

\* C1 (amended): query error isolation.  Whatever sources failed before or
\* after it, every source whose fetch returned and whose raw orders all
\* normalize has exactly its normalized orders in the result, and the orders
\* of the result follow the order in which the sources were processed.
C1_QueryErrorIsolation ==
    /\ \A i \in DOMAIN hist :
          (hist[i].fetched /\ Normalizable(hist[i].acc)) =>
             OrdersOf(hist[i].source) = AllNormalized(hist[i].source, hist[i].acc)
    /\ InSourceOrder

\* A result returned after three sources: the first and the last failed,
\* the one between them contributed orders.
C1_Witness ==
    /\ outcome = "result"
    /\ Len(hist) = 3
    /\ ~hist[1].fetched
    /\ hist[2].fetched /\ Normalizable(hist[2].acc) /\ SumN(hist[2].acc) > 0
    /\ ~hist[3].fetched
    /\ OrdersOf(hist[2].source) # <<>>

\* The sources processed whose fetch_open_orders raised.
FetchFailed == {i \in DOMAIN hist : ~hist[i].fetched}
\* The sources processed whose try block raised: the fetch or the
\* normalization of one of its orders.
SourceRaised == {i \in DOMAIN hist : ~hist[i].fetched \/ ~Normalizable(hist[i].acc)}

ErrorsOf(src) == SelectSeq(errors, LAMBDA e : e.source = src)

\* C2 as stated: one entry per source whose fetch failed, labelled with it,
\* and none for a source whose fetch succeeded.
C2_Original ==
    outcome = "result" =>
       /\ Len(errors) = Cardinality(FetchFailed)
       /\ \A i \in DOMAIN hist :
             Len(ErrorsOf(hist[i].source)) = (IF i \in FetchFailed THEN 1 ELSE 0)

\* C2 (amended): in every returned QueryResult the number of entries of
\* errors is the number of selected sources whose fetch or whose order
\* normalization failed, each entry labelled with the source that failed,
\* and a source that did not fail adds none.
C2_ErrorsPerFailedSource ==
    outcome = "result" =>
       /\ Len(hist) = Len(selected)
       /\ Len(errors) = Cardinality(SourceRaised)
       /\ \A i \in DOMAIN hist :
             Len(ErrorsOf(hist[i].source)) = (IF i \in SourceRaised THEN 1 ELSE 0)

\* A result of three sources, one failed in its fetch, one in the
\* normalization of its orders, one succeeded.
C2_Witness ==
    /\ outcome = "result"
    /\ Len(hist) = 3
    /\ \E i \in DOMAIN hist : ~hist[i].fetched
    /\ \E i \in DOMAIN hist : hist[i].fetched /\ ~Normalizable(hist[i].acc)
    /\ \E i \in DOMAIN hist : hist[i].fetched /\ Normalizable(hist[i].acc)
    /\ Len(errors) = 2

\* Both probes of detect_account_mode were answered with a non-2xx status.
BothProbesNon2xx ==
    /\ Len(probes) = 2
    /\ \A i \in DOMAIN probes : probes[i].net /\ ~Is2xx(probes[i].status)

\* C4 as stated: once the credentials are loaded, a query ends without a
\* QueryResult only when both probes returned a non-2xx status.
C4_Original ==
    (outcome = "abort" /\ cred.load = "ok") =>
        (abort = "account mode undetermined" /\ BothProbesNon2xx)

\* C4 (amended): once the credentials are loaded, a query ends without a
\* QueryResult only when Binance account-mode detection raises (both probes
\* answered non-2xx, or a probe failed at transport level) or when the
\* exchange is OKX and the credential has no passphrase; all of these
\* happen before the first source is fetched, and no per-source failure
\* aborts the query.
C4_QueryAbortCauses ==
    (outcome = "abort" /\ cred.load = "ok") =>
        /\ hist = <<>> /\ orders = <<>> /\ errors = <<>> /\ fs = IdleFetch
        /\ \/ /\ abort = "account mode undetermined"
              /\ req.exchange = EXCHANGE_BINANCE
              /\ BothProbesNon2xx
           \/ /\ abort = "probe transport"
              /\ req.exchange = EXCHANGE_BINANCE
              /\ probes # <<>> /\ ~probes[Len(probes)].net
           \/ /\ abort = "okx passphrase required"
              /\ req.exchange = EXCHANGE_OKX
              /\ ~cred.passphrase

\* Detection failed on two non-2xx probes and the query ended without a
\* QueryResult.
C4_Witness ==
    /\ outcome = "abort"
    /\ cred.load = "ok"
    /\ abort = "account mode undetermined"
    /\ BothProbesNon2xx

----------------------------------------------------------------------------
(* Properties of cancel_orders.                                            *)
(* hist holds one entry per reference processed: whether a cancel request  *)
(* was sent for it, and with which identifier.                             *)

\* A reference the adapter of the exchange can send a cancel request for.
WellFormedRef(exchange, ref) ==
    /\ ref.source \in SourcesOf(exchange)
    /\ ref.symbol # ""
    /\ ref.order_id # ""

\* C3: cancel outcomes are per order and independent.  The response to a
\* cancel request of n references holds n outcomes, the i-th with the id of
\* the i-th reference, and whatever happened to the references before it, a
\* well-formed reference has its cancel request sent and its outcome reported.
C3_CancelPerOrder ==
    /\ Len(results) = Len(hist)
    /\ pc = "cancel" => Len(results) = idx - 1
    /\ (outcome = "result" /\ results # <<>>) => Len(results) = Len(req.orders)
    /\ \A i \in DOMAIN results :
          /\ results[i].id = req.orders[i].id
          /\ (WellFormedRef(req.exchange, req.orders[i])
                /\ (req.exchange = EXCHANGE_OKX => cred.passphrase)) => hist[i].sent

\* Two references: the cancel of the first failed, the second was sent and
\* succeeded.
C3_Witness ==
    /\ outcome = "result"
    /\ Len(results) = 2
    /\ ~results[1].ok
    /\ hist[2].sent
    /\ results[2].ok
    /\ results[1].id # results[2].id

\* The code value v, as text without surrounding whitespace, is "" or "0";
\* an absent member counts as "".
EmptyOrZero(v) ==
    \/ v.j = "absent"
    \/ v.j \in {"str", "num"} /\ Strip(v.s) \in {"", "0"}

\* The three conditions of C7 on the response to the cancel request.
OkxCancelConditions(r) ==
    /\ r.net /\ Is2xx(r.status)
    /\ r.body.t = "obj" /\ EmptyOrZero(r.body.code)
    /\ r.body.data.k = "list" =>
          \A i \in DOMAIN r.body.data.items :
              r.body.data.items[i].dict => EmptyOrZero(r.body.data.items[i].sCode)

\* C7: an OKX cancel outcome has ok = true exactly when the status of the
\* response is in [200,300), its body is a JSON object whose code is "" or
\* "0", and every element of a data list has an sCode that is "" or "0" or
\* absent; status 200, code "0", data [{sCode: "1"}] gives ok = false.
C7_OkxCancelSuccess ==
    (req.exchange = EXCHANGE_OKX /\ Len(results) = 1) =>
        /\ results[1].ok <=> (hist[1].sent /\ OkxCancelConditions(lastResp))
        /\ (/\ hist[1].sent
            /\ lastResp.status = 200
            /\ lastResp.body.code = JStr("0")
            /\ lastResp.body.data = [k |-> "list",
                                     items |-> <<[dict |-> TRUE, sCode |-> JStr("1")]>>])
           => ~results[1].ok

\* The example of the claim: status 200, code "0", data [{sCode: "1"}].
C7_Witness ==
    /\ req.exchange = EXCHANGE_OKX
    /\ Len(results) = 1
    /\ hist[1].sent
    /\ lastResp.status = 200
    /\ lastResp.body.t = "obj"
    /\ lastResp.body.code = JStr("0")
    /\ lastResp.body.data = [k |-> "list", items |-> <<[dict |-> TRUE, sCode |-> JStr("1")]>>]
    /\ ~results[1].ok

----------------------------------------------------------------------------
(* Properties of lookup_order. *)

\* C6: every QueryResult returned by lookup holds either one order and no
\* error, or no order and one error labelled with the requested source.
C6_LookupOneOutcome ==
    (outcome = "result") =>
        \/ /\ Len(orders) = 1 /\ orders[1].n = 1 /\ orders[1].src = req.source
           /\ errors = <<>>
        \/ /\ orders = <<>>
           /\ Len(errors) = 1 /\ errors[1].source = req.source

\* The adapter raised on the response and the lookup returned one error.
C6_Witness ==
    /\ outcome = "result"
    /\ fs.st = "err"
    /\ orders = <<>>
    /\ Len(errors) = 1

----------------------------------------------------------------------------
(* lookup_order and cancel_orders together *)

NextRouter ==
    \/ \E p \in LookupPayloads, c \in Credentials : LookupStart(p, c)
    \/ \E r \in Responses : LookupResponse(r)
    \/ \E p \in CancelPayloads, c \in Credentials : CancelStart(p, c)
    \/ \E r \in FewCancelResponses : CancelStep(r)

SpecRouter == Init /\ [][NextRouter]_vars

IsLookup == "source" \in DOMAIN req
IsCancel == "orders" \in DOMAIN req

\* The request names a supported exchange and an account.
Routable == req.exchange \in SUPPORTED_EXCHANGES /\ req.account # ""

\* An unsupported source, an empty symbol or no usable identifier.
InvalidLookup ==
    \/ req.source \notin SourcesOf(req.exchange)
    \/ req.symbol = ""
    \/ IF req.exchange = EXCHANGE_GATE THEN req.order_id = ""
       ELSE req.order_id = "" /\ req.client_order_id = ""
InvalidRef(exchange, ref) ==
    \/ ref.source \notin SourcesOf(exchange)
    \/ ref.symbol = ""
    \/ IF exchange = EXCHANGE_GATE THEN ref.order_id = ""
       ELSE ref.order_id = "" /\ ref.client_order_id = ""

CancelOfInvalidRefFails ==
    IsCancel =>
       \A i \in DOMAIN results :
          InvalidRef(req.exchange, req.orders[i]) =>
             /\ ~results[i].ok
             /\ results[i].status = 0
             /\ ~hist[i].sent

----------------------------------------------------------------------------
(* Properties of the adapters' fetch_open_orders and fetch_order, under    *)
(* SpecFetch: lastResp is the response the adapter has just processed.     *)

\* C8: for OKX fetch_open_orders and fetch_order, a response with a status
\* in [200,300) and an envelope code that is neither "" nor "0" fails with
\* a business error carrying that code and msg, and returns no order.
C8_OkxBusinessError ==
    (/\ pc = "fetch" /\ fs.ex = EXCHANGE_OKX
     /\ lastResp.net /\ Is2xx(lastResp.status)
     /\ lastResp.body.t = "obj" /\ ~EmptyOrZero(lastResp.body.code)) =>
        /\ fs.st = "err"
        /\ fs.err.kind = "business"
        /\ fs.err.code = Strip(PyStr(lastResp.body.code))
        /\ fs.err.msg = lastResp.body.msg

\* C9: the fetches of every adapter fail on the status of a response
\* exactly when it lies outside [200,300).
C9_Every2xxAccepted ==
    (pc = "fetch" /\ lastResp.net) =>
        ((fs.st = "err" /\ fs.err.kind = "status") <=> ~Is2xx(lastResp.status))

\* C10: for both Gate sources, fetch_open_orders accepts a body that is a
\* JSON array or an object with an "orders" array and fails with a protocol
\* error for every other body; stated for the responses of status 200.
C10_GateBodyShapes ==
    (/\ pc = "fetch" /\ fs.ex = EXCHANGE_GATE /\ fs.op = "list"
     /\ lastResp.net /\ lastResp.status = HTTP_OK) =>
        LET b == lastResp.body
            accepted == b.t = "list" \/ (b.t = "obj" /\ b.orders.k = "list")
        IN  IF accepted THEN fs.st # "err"
            ELSE fs.st = "err" /\ fs.err.kind \in {"json", "shape"}

----------------------------------------------------------------------------
(* Properties of the identifiers and the symbol of a cancel or a lookup.   *)

\* The credential lets the cancel of the exchange reach its adapter.
AdapterReached(exchange) == exchange = EXCHANGE_OKX => cred.passphrase

\* C11: on every exchange and source, the cancel of a reference with
\* neither an order id nor a client order id sends no request and gives an
\* outcome with ok = false and status = 0.
C11_CancelWithoutIdentifier ==
    IsCancel =>
       \A i \in DOMAIN results :
          (req.orders[i].order_id = "" /\ req.orders[i].client_order_id = "") =>
             /\ ~hist[i].sent
             /\ ~results[i].ok
             /\ results[i].status = 0

\* A reference with a supported source and a symbol but no identifier, on
\* Binance, has been processed.
C11_Witness ==
    /\ IsCancel
    /\ req.exchange = EXCHANGE_BINANCE
    /\ Len(results) = 1
    /\ req.orders[1].source \in BINANCE_SOURCES
    /\ req.orders[1].symbol # ""
    /\ req.orders[1].order_id = "" /\ req.orders[1].client_order_id = ""
    /\ results[1].message = "order_id or client_order_id required"

\* A reference with a client order id, no order id, a supported source and
\* a symbol.
ClientOnlyRef(exchange, ref) ==
    /\ ref.source \in SourcesOf(exchange)
    /\ ref.symbol # ""
    /\ ref.order_id = ""
    /\ ref.client_order_id # ""

ClientKeyOf(exchange) ==
    CASE exchange = EXCHANGE_BINANCE -> "origClientOrderId"
      [] exchange = EXCHANGE_OKX -> "clOrdId"
      [] OTHER -> "text"

\* C12 as stated: on Binance, OKX and Gate alike, a cancel with a client
\* order id and no order id is sent, keyed by the client order id.
C12_Original ==
    IsCancel =>
       \A i \in DOMAIN results :
          (ClientOnlyRef(req.exchange, req.orders[i]) /\ AdapterReached(req.exchange)) =>
             hist[i].sent /\ hist[i].key = ClientKeyOf(req.exchange)

\* C12 (amended): on Binance and OKX a cancel with a client order id and no
\* order id is sent, keyed by the client order id; on Gate it is rejected
\* for the missing order id, no request sent, outcome ok = false, status 0.
C12_ClientIdCancel ==
    IsCancel =>
       \A i \in DOMAIN results :
          (ClientOnlyRef(req.exchange, req.orders[i]) /\ AdapterReached(req.exchange)) =>
             IF req.exchange = EXCHANGE_GATE
             THEN /\ ~hist[i].sent
                  /\ ~results[i].ok /\ results[i].status = 0
                  /\ results[i].message = "order_id required for gate cancel"
             ELSE hist[i].sent /\ hist[i].key = ClientKeyOf(req.exchange)

\* A Gate cancel by client order id, rejected.
C12_Witness ==
    /\ IsCancel
    /\ req.exchange = EXCHANGE_GATE
    /\ Len(results) = 1
    /\ ClientOnlyRef(EXCHANGE_GATE, req.orders[1])
    /\ ~hist[1].sent
    /\ ~results[1].ok

\* C13: a Gate futures cancel with an order id and an empty symbol is sent,
\* without the contract parameter; a cancel with an empty symbol on Gate
\* spot, OKX or Binance is rejected without a request.
C13_GateFuturesEmptySymbol ==
    IsCancel =>
       \A i \in DOMAIN results :
          LET ref == req.orders[i]
          IN  (ref.symbol = "" /\ ref.source \in SourcesOf(req.exchange)
                              /\ ref.order_id # "") =>
                 IF req.exchange = EXCHANGE_GATE /\ ref.source = GATE_SOURCE_FUTURES
                 THEN hist[i].sent /\ ~hist[i].symbol
                 ELSE ~hist[i].sent /\ ~results[i].ok

\* lookup_order and cancel_orders, the cancel of one reference
NextRouterOne ==
    \/ \E p \in LookupPayloads, c \in Credentials : LookupStart(p, c)
    \/ \E r \in Responses : LookupResponse(r)
    \/ \E p \in OneCancelPayloads, c \in Credentials : CancelStart(p, c)
    \/ \E r \in FewCancelResponses : CancelStep(r)

SpecRouterOne == Init /\ [][NextRouterOne]_vars

OrderKeyOf(exchange) ==
    IF exchange = EXCHANGE_BINANCE THEN "orderId" ELSE "ordId"

\* The identifier parameter a Binance or OKX request must carry.
KeyByPrecedence(exchange, order_id) ==
    IF order_id # "" THEN OrderKeyOf(exchange) ELSE ClientKeyOf(exchange)

\* C14: identifier precedence.  On Binance and OKX, the request of a cancel
\* or of a lookup carries one identifier parameter: the order id whenever
\* one is supplied, the client order id only when the order id is absent
\* or empty.
C14_IdentifierPrecedence ==
    /\ (IsCancel /\ req.exchange \in {EXCHANGE_BINANCE, EXCHANGE_OKX}) =>
          \A i \in DOMAIN hist :
             hist[i].sent =>
                /\ hist[i].key = KeyByPrecedence(req.exchange, req.orders[i].order_id)
                /\ req.orders[i].order_id = "" => req.orders[i].client_order_id # ""
    /\ (IsLookup /\ req.exchange \in {EXCHANGE_BINANCE, EXCHANGE_OKX}) =>
          \A i \in DOMAIN hist :
             hist[i].sent =>
                /\ hist[i].key = KeyByPrecedence(req.exchange, req.order_id)
                /\ req.order_id = "" => req.client_order_id # ""

\* An OKX cancel with both identifiers, sent with ordId.
C14_Witness ==
    /\ IsCancel
    /\ req.exchange = EXCHANGE_OKX
    /\ Len(hist) = 1
    /\ req.orders[1].order_id # "" /\ req.orders[1].client_order_id # ""
    /\ hist[1].sent
    /\ hist[1].key = "ordId"

----------------------------------------------------------------------------
(* binance.detect_account_mode on its own: the two probes, the dict it     *)
(* returns (results) or the RuntimeError it raises (errors).  A body is    *)
(* its length in characters.                                               *)

PREVIEW_LIMIT == 500   \* len(papi_body) <= 500, papi_body[:500]

BodyLengths == {0, PREVIEW_LIMIT, PREVIEW_LIMIT + 1, 2 * PREVIEW_LIMIT}

DetectResponses ==
    {[net |-> r.net, status |-> r.status, json |-> r.json, found |-> r.found,
      len |-> n] : r \in ProbeResponses, n \in BodyLengths}

\* variant: the body is kept whole
PreviewMut(len) == [kept |-> len, ellipsis |-> FALSE]
\* body if len(body) <= 500 else f"{body[:500]}...": the characters of the
\* body that are kept, and whether "..." follows them.
Preview(len) ==
    IF len <= PREVIEW_LIMIT THEN [kept |-> len, ellipsis |-> FALSE]
    ELSE [kept |-> PREVIEW_LIMIT, ellipsis |-> TRUE]

\* variant: only status 200 counts
ProbeSucceededMut(r) == r.status = HTTP_OK
\* 200 <= status < 300, of a probe that was answered
ProbeSucceeded(r) == Is2xx(r.status)

ProbeRecord(ep, r) == [ep |-> ep, net |-> r.net, status |-> r.status, len |-> r.len]

\* The dict returned; a status that is None is the empty sequence.
DetectResult(mode, via, papi_status, fapi_status) ==
    [mode |-> mode, via |-> via, papi_status |-> papi_status, fapi_status |-> fapi_status]

\* The unified (PAPI) probe and what follows it.
DetectUnified(r) ==
    /\ pc = "detect_papi"
    /\ UNCHANGED <<credentials_table, SESSION_STORE, meta>>
    /\ probes' = Append(probes, ProbeRecord("papi", r))
    /\ IF ~r.net
       THEN Abort("probe transport") /\ UNCHANGED results
       ELSE IF ProbeSucceeded(r)
       THEN /\ results' = <<DetectResult(ModeOfUnifiedProbe(r), "PAPI", <<r.status>>, <<>>)>>
            /\ pc' = "done"
            /\ outcome' = "result"
            /\ UNCHANGED abort
       ELSE /\ pc' = "detect_fapi"
            /\ UNCHANGED <<results, outcome, abort>>
    /\ UNCHANGED <<req, cred, selected, idx, fs, orders, errors, hist, lastResp>>

\* The classic (FAPI) probe and what follows it.
DetectClassic(r) ==
    /\ pc = "detect_fapi"
    /\ UNCHANGED <<credentials_table, SESSION_STORE, meta>>
    /\ probes' = Append(probes, ProbeRecord("fapi", r))
    /\ IF ~r.net
       THEN Abort("probe transport") /\ UNCHANGED <<results, errors>>
       ELSE IF ProbeSucceeded(r)
       THEN /\ results' = <<DetectResult(ACCOUNT_MODE_STANDARD, "FAPI",
                                         <<probes[1].status>>, <<r.status>>)>>
            /\ pc' = "done"
            /\ outcome' = "result"
            /\ UNCHANGED <<abort, errors>>
       ELSE /\ Abort("account mode undetermined")
            /\ errors' = <<[papi_status |-> probes[1].status,
                            papi_preview |-> Preview(probes[1].len),
                            fapi_status |-> r.status,
                            fapi_preview |-> Preview(r.len)]>>
            /\ UNCHANGED results
    /\ UNCHANGED <<req, cred, selected, idx, fs, orders, hist, lastResp>>

InitDetect == pc = "detect_papi" /\ InitCommon /\ lastResp = NoResp

NextDetect ==
    \/ \E r \in DetectResponses : DetectUnified(r)
    \/ \E r \in DetectResponses : DetectClassic(r)

SpecDetect == InitDetect /\ [][NextDetect]_vars

\* The probe was answered, with a status outside [200,300).
AnsweredNon2xx(p) == p.net /\ ~Is2xx(p.status)
Answered2xx(p) == p.net /\ Is2xx(p.status)

\* C15: probe order.  The unified endpoint is probed first; the classic
\* endpoint is probed exactly when the unified probe returned a non-2xx
\* status; a 2xx unified probe decides the mode with no classic probe; a
\* non-2xx unified probe followed by a 2xx classic probe gives Standard.
C15_ProbeOrder ==
    /\ Len(probes) <= 2
    /\ probes # <<>> => probes[1].ep = "papi"
    /\ Len(probes) = 2 => probes[2].ep = "fapi" /\ AnsweredNon2xx(probes[1])
    /\ pc = "detect_fapi" => Len(probes) = 1 /\ AnsweredNon2xx(probes[1])
    /\ (pc = "done" /\ AnsweredNon2xx(probes[1])) => Len(probes) = 2
    /\ (probes # <<>> /\ Answered2xx(probes[1])) =>
           /\ Len(probes) = 1
           /\ outcome = "result"
           /\ results[1].via = "PAPI"
           /\ results[1].mode \in {ACCOUNT_MODE_UNIFIED, ACCOUNT_MODE_STANDARD}
           /\ results[1].fapi_status = <<>>
    /\ (Len(probes) = 2 /\ Answered2xx(probes[2])) =>
           /\ outcome = "result"
           /\ results[1].mode = ACCOUNT_MODE_STANDARD
           /\ results[1].via = "FAPI"

\* The unified probe answered 404, the classic probe 201: Standard.
C15_Witness ==
    /\ Len(probes) = 2
    /\ probes[1].net /\ probes[1].status = 404
    /\ probes[2].net /\ probes[2].status = 201
    /\ outcome = "result"
    /\ results[1].mode = ACCOUNT_MODE_STANDARD

\* C16: when both probes return a non-2xx status, detection raises an error
\* carrying both statuses and both bodies, each cut to its first 500
\* characters at most, and returns no mode.
C16_BothProbesFail ==
    (Len(probes) = 2 /\ AnsweredNon2xx(probes[1]) /\ AnsweredNon2xx(probes[2])) =>
        /\ outcome = "abort"
        /\ results = <<>>
        /\ Len(errors) = 1
        /\ errors[1].papi_status = probes[1].status
        /\ errors[1].fapi_status = probes[2].status
        /\ errors[1].papi_preview.kept =
              (IF probes[1].len <= 500 THEN probes[1].len ELSE 500)
        /\ errors[1].fapi_preview.kept =
              (IF probes[2].len <= 500 THEN probes[2].len ELSE 500)

\* Both probes failed, one with a body longer than 500 characters.
C16_Witness ==
    /\ Len(probes) = 2
    /\ AnsweredNon2xx(probes[1]) /\ AnsweredNon2xx(probes[2])
    /\ probes[1].len > 500
    /\ probes[2].len <= 500
    /\ outcome = "abort"
    /\ Len(errors) = 1

----------------------------------------------------------------------------
(* Properties of the source selection of a Binance query, under Spec.      *)

\* The query is a Binance query whose credentials were loaded.
BinanceQuery == req.exchange = EXCHANGE_BINANCE /\ cred.load = "ok"

NoSourceFlag ==
    /\ ~req.binance.papi_um /\ ~req.binance.papi_spot
    /\ ~req.binance.fapi_um /\ ~req.binance.spot

\* The mode the request pins, "" when it pins none; the texts are those of
\* the requests of the model.
PinnedMode ==
    CASE req.binance.account_mode \in {"UNIFIED", " unified"} -> ACCOUNT_MODE_UNIFIED
      [] req.binance.account_mode \in {"STANDARD", "standard"} -> ACCOUNT_MODE_STANDARD
      [] OTHER -> ""

Probing == pc \in {"probe_papi", "probe_fapi"}

\* C17: in a Binance query the probes are issued exactly when no source
\* flag is set and the requested mode is neither UNIFIED nor STANDARD; they
\* are over before the first open-orders request, and no probe follows one.
C17_ProbesOnlyWhenNeeded ==
    /\ [](pc # "idle" =>
            ((Probing \/ probes # <<>>) <=>
                (BinanceQuery /\ NoSourceFlag /\ PinnedMode = "")))
    /\ [](Probing => (fs = IdleFetch /\ hist = <<>>))
    /\ [][probes' # probes => (Probing /\ fs = IdleFetch /\ hist = <<>>)]_vars
    /\ [][pc = "sources" => ~Probing']_vars

\* The probes are done and the first open-orders request is due.
C17_Witness ==
    /\ BinanceQuery /\ NoSourceFlag /\ PinnedMode = ""
    /\ Len(probes) = 2
    /\ pc = "sources"
    /\ fs.st = "run" /\ fs.page = 1
    /\ hist = <<>>

\* The mode of the query: the pinned one, else the one detected.
ResolvedMode ==
    IF PinnedMode # "" THEN PinnedMode
    ELSE IF probes # <<>> THEN probes[Len(probes)].mode
    ELSE ""

\* C18: with no source flag set, the sources queried are papi_um,
\* papi_spot, fapi_um when the pinned or detected mode is Unified and
\* fapi_um, spot when it is Standard, and nothing else.
C18_DefaultSources ==
    (BinanceQuery /\ NoSourceFlag /\ pc \in {"sources", "done"} /\ outcome # "abort") =>
        /\ ResolvedMode \in {ACCOUNT_MODE_UNIFIED, ACCOUNT_MODE_STANDARD}
        /\ ResolvedMode = ACCOUNT_MODE_UNIFIED =>
              selected = <<"papi_um", "papi_spot", "fapi_um">>
        /\ ResolvedMode = ACCOUNT_MODE_STANDARD =>
              selected = <<"fapi_um", "spot">>

\* A detected Unified mode, its three sources all processed.
C18_Witness ==
    /\ BinanceQuery /\ NoSourceFlag /\ PinnedMode = ""
    /\ Len(probes) = 1 /\ probes[1].mode = ACCOUNT_MODE_UNIFIED
    /\ outcome = "result"
    /\ Len(hist) = 3

----------------------------------------------------------------------------
(* normalize_order, main.py 191-277: the identifiers, the symbol and the   *)
(* id of the OrderItem.  A raw order is given by the values found under    *)
(* the keys the code reads, in the order it reads them.                    *)

\* raw.get(key): None for a missing key
Get(v) == IF v.j = "absent" THEN JNull ELSE v

\* Python truth of a JSON scalar: None, "" and 0 are false
Truthy(v) ==
    CASE v.j \in {"absent", "null"} -> FALSE
      [] v.j = "num" -> v.s # "0"
      [] v.j = "bool" -> v.s = "true"
      [] OTHER -> v.s # ""

\* a or b
PyOr(a, b) == IF Truthy(a) THEN a ELSE b

\* raw.get(k1) or raw.get(k2) or ...
RECURSIVE OrChain(_)
OrChain(vals) ==
    IF Len(vals) = 1 THEN Get(vals[1])
    ELSE PyOr(Get(vals[1]), OrChain(Tail(vals)))

\* str(x) if x is not None else None
StrOrNone(v) == IF v.j = "null" THEN JNull ELSE JStr(v.s)

\* uuid.uuid4().hex
Tokens == {"u1", "u2", "u3"}

\* order_id_str or client_order_id_str or uuid.uuid4().hex
OrderKey(order_id_str, client_order_id_str, token) ==
    PyOr(PyOr(order_id_str, client_order_id_str), JStr(token)).s

\* the token is generated only when the two texts are false
NeedsToken(order_id_str, client_order_id_str) ==
    ~Truthy(PyOr(order_id_str, client_order_id_str))

\* symbol: str(raw.get("symbol", "")).upper() for Binance and OKX (instId),
\* str(currency_pair or contract or symbol or "").upper() for Gate
SymbolOf(exchange, sym) ==
    IF exchange = EXCHANGE_GATE
    THEN Upper(PyStr(PyOr(OrChain(sym), JStr(""))))
    ELSE Upper(PyStr(sym[1]))

normalize_order(exchange, source, raw, token) ==
    LET order_id == OrChain(raw.oid)
        client_order_id == OrChain(raw.cid)
        symbol == SymbolOf(exchange, raw.sym)
        order_id_str == StrOrNone(order_id)
        client_order_id_str == StrOrNone(client_order_id)
        order_key == OrderKey(order_id_str, client_order_id_str, token)
    IN [id |-> <<exchange, source, symbol, order_key>>,
        exchange |-> exchange,
        source |-> source,
        symbol |-> symbol,
        order_id |-> order_id_str,
        client_order_id |-> client_order_id_str]

OrderIdValues ==
    {JAbsent, JNull, JStr(""), JStr("123"), JNum("0"), JNum("7")}
ClientIdValues == {JAbsent, JStr(""), JStr("c1")}
SymbolValues == {JAbsent, JNull, JStr("btcusdt")}

\* The identifier keys the branch of an exchange reads: Binance orderId,
\* orderID, order_id and clientOrderId, client_order_id; OKX ordId, orderId
\* and clOrdId, clientOrderId; Gate id, order_id, orderId and text,
\* client_oid, clientOrderId.
OrderIdKeys(exchange) == IF exchange = EXCHANGE_OKX THEN 2 ELSE 3
ClientIdKeys(exchange) == IF exchange = EXCHANGE_GATE THEN 3 ELSE 2

\* The values under the symbol keys: symbol, instId, or currency_pair,
\* contract, symbol.
RawSymbols(exchange) ==
    IF exchange = EXCHANGE_GATE
    THEN {<<JStr("btcusdt"), JAbsent, JAbsent>>,
          <<JStr(""), JStr("btcusdt"), JAbsent>>,
          <<JAbsent, JNull, JAbsent>>}
    ELSE {<<y>> : y \in SymbolValues}

NormalizeCalls ==
    {<<"binance", SOURCE_FAPI_UM>>, <<"okex", OKX_SOURCE_SWAP>>,
     <<"gate", GATE_SOURCE_SPOT>>, <<"kraken", "spot">>}

\* One call of normalize_order on the raw order of the state; hist keeps
\* the token each call generated, "" when it generated none.
NormalizeOrder ==
    /\ pc = "normalize"
    /\ UNCHANGED <<credentials_table, SESSION_STORE, meta>>
    /\ Len(results) < MaxRuns
    /\ LET exchange == normalize_exchange(req.exchange) IN
       IF exchange \notin {EXCHANGE_BINANCE, EXCHANGE_OKX, EXCHANGE_GATE}
       THEN /\ pc' = "done"
            /\ outcome' = "abort"
            /\ abort' = "unsupported exchange"
            /\ UNCHANGED <<results, hist>>
       ELSE \E token \in Tokens :
            LET item == normalize_order(exchange, req.source, req.raw, token)
                drawn == NeedsToken(item.order_id, item.client_order_id)
            IN /\ \A i \in 1..Len(hist) : hist[i] # token
               /\ ~drawn => token = CHOOSE t \in Tokens : \A i \in 1..Len(hist) : hist[i] # t
               /\ results' = Append(results, item)
               /\ hist' = Append(hist, IF drawn THEN token ELSE "")
               /\ outcome' = "result"
               /\ UNCHANGED <<pc, abort>>
    /\ UNCHANGED <<req, cred, selected, idx, fs, orders, errors, probes, lastResp>>

\* The call arrives with its exchange, its source and its raw order.
NormalizeStart ==
    /\ pc = "idle"
    /\ UNCHANGED <<credentials_table, SESSION_STORE, meta>>
    /\ \E e \in NormalizeCalls :
       \E a \in OrderIdValues, b \in OrderIdValues, c \in OrderIdValues,
          k \in ClientIdValues, l \in ClientIdValues, m \in ClientIdValues :
       \E y \in RawSymbols(normalize_exchange(e[1])) :
          LET exchange == normalize_exchange(e[1]) IN
          /\ OrderIdKeys(exchange) = 2 => c = JAbsent
          /\ ClientIdKeys(exchange) = 2 => m = JAbsent
          /\ req' = [exchange |-> e[1], source |-> e[2],
                     raw |-> [oid |-> SubSeq(<<a, b, c>>, 1, OrderIdKeys(exchange)),
                              cid |-> SubSeq(<<k, l, m>>, 1, ClientIdKeys(exchange)),
                              sym |-> y]]
    /\ pc' = "normalize"
    /\ UNCHANGED <<cred, selected, idx, fs, orders, errors, results, outcome,
                   abort, probes, hist, lastResp>>

InitNormalize == pc = "idle" /\ InitCommon /\ lastResp = NoResp

NextNormalize == NormalizeStart \/ NormalizeOrder

SpecNormalize == InitNormalize /\ [][NextNormalize]_vars

\* The key the claimed rule gives an OrderItem: its order id when that is
\* not null, else its client order id when that is not null, else the token.
KeyByNullness(item, token) ==
    IF item.order_id # JNull THEN item.order_id.s
    ELSE IF item.client_order_id # JNull THEN item.client_order_id.s
    ELSE token

\* C19: the id of every normalized order is exchange:source:symbol:key,
\* the key being the order id when it is not null, else the client order id
\* when it is not null, and a generated token only when both are null.
C19_IdKeyedByIdentifier ==
    pc = "normalize" =>
        \A i \in 1..Len(results) :
            /\ results[i].id = <<results[i].exchange, results[i].source,
                                 results[i].symbol,
                                 KeyByNullness(results[i], hist[i])>>
            /\ hist[i] # "" =>
                  (results[i].order_id = JNull /\ results[i].client_order_id = JNull)

\* The raw order has a value other than null under one of the identifier
\* keys the code reads.
CarriesIdentifier(raw) ==
    \/ \E i \in 1..Len(raw.oid) : Get(raw.oid[i]) # JNull
    \/ \E i \in 1..Len(raw.cid) : Get(raw.cid[i]) # JNull

\* C20: two normalizations of one raw order for one exchange and source
\* give the same id whenever the raw order carries an order id or a client
\* order id.
C20_IdDeterminism ==
    (pc = "normalize" /\ CarriesIdentifier(req.raw)) =>
        \A i, j \in 1..Len(results) : results[i].id = results[j].id

----------------------------------------------------------------------------
(* The scalar conversions of normalize_order: to_ms (main.py 159-174),     *)
(* to_bool (177-188) and the executed quantity of a Gate order (229-236,   *)
(* 270).  Each is applied once to an input drawn from a finite set.        *)

\* Timestamps exceed 32 bits: a number is written hi * Giga + lo with
\* 0 <= lo < Giga, a sign, and a tenths digit f for a float.
Giga == 1000000000
TeraHi == 1000         \* 1_000_000_000_000 = TeraHi * Giga
MsPerSecond == 1000    \* num * 1000
Mega == 1000000        \* Giga = MsPerSecond * Mega

TsValue(t, shape, neg, hi, lo, f) ==
    [t |-> t, shape |-> shape, neg |-> neg, hi |-> hi, lo |-> lo, f |-> f]

\* None, or the int returned, or the exception int() raises
TsNone == [k |-> "none", neg |-> FALSE, hi |-> 0, lo |-> 0]
TsRaise == [k |-> "raise", neg |-> FALSE, hi |-> 0, lo |-> 0]
TsInt(neg, hi, lo) ==
    [k |-> "int", neg |-> neg /\ (hi # 0 \/ lo # 0), hi |-> hi, lo |-> lo]

\* num > 1_000_000_000_000 and num > 1_000_000_000
Gt12(v) == ~v.neg /\ (v.hi > TeraHi \/ (v.hi = TeraHi /\ (v.lo > 0 \/ v.f > 0)))
Gt9(v) == ~v.neg /\ (v.hi > 1 \/ (v.hi = 1 /\ (v.lo > 0 \/ v.f > 0)))

\* lines 170-174: int(num), int(num * 1000), int(num); int() truncates
\* towards zero
ToMsOfNumber(v) ==
    IF Gt12(v) THEN TsInt(v.neg, v.hi, v.lo)
    ELSE IF Gt9(v)
    THEN TsInt(v.neg, v.hi * MsPerSecond + v.lo \div Mega,
              (v.lo % Mega) * MsPerSecond + v.f * 100)
    ELSE TsInt(v.neg, v.hi, v.lo)

\* t is the JSON type; for a string, shape tells the text: "empty" is "",
\* "blank" is spaces only, "word" is not a number, "nan" and "inf" are the
\* texts float() accepts as not-a-number and infinity, "num" and "padded"
\* are a decimal number without and with spaces around it.
to_ms(v) ==
    CASE v.t = "null" -> TsNone
      [] v.t = "bool" -> TsNone
      [] v.t = "str" /\ v.shape = "empty" -> TsNone
      [] v.t \in {"int", "float"} -> ToMsOfNumber(v)
      [] v.t = "str" /\ v.shape \in {"blank", "word"} -> TsNone
      [] v.t = "str" /\ v.shape \in {"nan", "inf"} -> TsRaise
      [] OTHER -> ToMsOfNumber(v)

TsHi == {0, 1, 2, 1700, TeraHi, TeraHi + 1, 1700000}
TsLo == {0, 1, 500000000, Giga - 1}

ToMsInputs ==
    {TsValue("null", "", FALSE, 0, 0, 0), TsValue("bool", "", FALSE, 0, 1, 0),
     TsValue("str", "empty", FALSE, 0, 0, 0), TsValue("str", "blank", FALSE, 0, 0, 0),
     TsValue("str", "word", FALSE, 0, 0, 0), TsValue("str", "nan", FALSE, 0, 0, 0),
     TsValue("str", "inf", FALSE, 0, 0, 0)}
    \cup {TsValue("int", "num", n, h, l, 0) : n \in BOOLEAN, h \in TsHi, l \in TsLo}
    \cup {TsValue("float", "num", FALSE, h, l, f) : h \in TsHi, l \in {0, 1}, f \in {0, 5}}
    \cup {TsValue("str", sh, FALSE, h, l, f) :
             sh \in {"num", "padded"}, h \in {0, 1700, 1700000}, l \in {0, 1}, f \in {0, 5}}

\* A JSON value given to to_bool: s is the text of a string, n the number
\* in tenths (a bool is 1 or 0).
BoolValue(t, s, n) == [t |-> t, s |-> s, n |-> n]

\* value.strip().lower() on the texts of the model
StripLower(s) ==
    CASE s \in {"TRUE", " True ", "true"} -> "true"
      [] s \in {"False", "false"} -> "false"
      [] s \in {"YES", "yes"} -> "yes"
      [] s \in {"No", "no"} -> "no"
      [] s \in {"Y", "y"} -> "y"
      [] s \in {"N ", "n"} -> "n"
      [] s = " 1" -> "1"
      [] s = " " -> ""
      [] OTHER -> s

\* variant: the listed texts only, and the numbers 0 and 1 only
to_boolMut(v) ==
    CASE v.t = "bool" -> IF v.n # 0 THEN "True" ELSE "False"
      [] v.t = "str" /\ StripLower(v.s) \in {"true", "1", "yes"} -> "True"
      [] v.t = "str" /\ StripLower(v.s) \in {"false", "0", "no"} -> "False"
      [] v.t \in {"int", "float"} /\ v.n = 10 -> "True"
      [] v.t \in {"int", "float"} /\ v.n = 0 -> "False"
      [] OTHER -> "None"
to_bool(v) ==
    CASE v.t = "bool" -> IF v.n # 0 THEN "True" ELSE "False"
      [] v.t = "str" /\ StripLower(v.s) \in {"true", "1", "yes", "y"} -> "True"
      [] v.t = "str" /\ StripLower(v.s) \in {"false", "0", "no", "n"} -> "False"
      [] v.t \in {"int", "float"} -> IF v.n # 0 THEN "True" ELSE "False"
      [] OTHER -> "None"

BoolTexts ==
    {"true", "TRUE", " True ", "false", "False", "yes", "YES", "no", "No",
     "y", "Y", "n", "N ", "1", " 1", "0", "2", "", " ", "on", "off", "t", "maybe"}

ToBoolInputs ==
    {BoolValue("null", "", 0), BoolValue("list", "", 0),
     BoolValue("bool", "", 1), BoolValue("bool", "", 0)}
    \cup {BoolValue("str", x, 0) : x \in BoolTexts}
    \cup {BoolValue("int", "", 10 * n) : n \in {-1, 0, 1, 2}}
    \cup {BoolValue("float", "", n) : n \in {0, 5, 10, 15}}

\* A quantity of a raw order: a decimal text or number with its sign, its
\* whole part and the digits written after the point (<<>>: no point);
\* ok is FALSE for a value float() rejects.
Qty(j, ok, neg, whole, frac) ==
    [j |-> j, ok |-> ok, neg |-> neg, whole |-> whole, frac |-> frac]
QtyNull == Qty("null", FALSE, FALSE, 0, <<>>)
QtyAbsent == Qty("absent", FALSE, FALSE, 0, <<>>)

\* raw.get(key)
QtyGet(q) == IF q.j = "absent" THEN QtyNull ELSE q

\* float(x), in tenths
FloatOf(q) ==
    (IF q.neg THEN -1 ELSE 1) * (q.whole * 10 + (IF q.frac = <<>> THEN 0 ELSE q.frac[1]))

AbsOf(x) == IF x < 0 THEN -x ELSE x

\* str(float): the shortest text that reads back, always with a point
StrOfFloat(x) == Qty("str", TRUE, x < 0, AbsOf(x) \div 10, <<AbsOf(x) % 10>>)

\* str(x) of a JSON scalar
StrOfQty(q) ==
    IF q.j = "float" THEN StrOfFloat(FloatOf(q))
    ELSE Qty("str", q.ok, q.neg, q.whole, q.frac)

\* lines 229-236 and 270: filled_amount, else |size| - |left|
gate_executed_qty(raw) ==
    LET filled == QtyGet(raw.filled_amount)
        size == QtyGet(raw.size)
        left == QtyGet(raw.left)
        executed_qty ==
            IF filled # QtyNull THEN StrOfQty(filled)
            ELSE IF left # QtyNull /\ size # QtyNull
            THEN IF size.ok /\ left.ok
                 THEN StrOfFloat(AbsOf(FloatOf(size)) - AbsOf(FloatOf(left)))
                 ELSE QtyNull
            ELSE QtyNull
    IN executed_qty

QtyValues ==
    {QtyAbsent, QtyNull, Qty("str", FALSE, FALSE, 0, <<>>)}
    \cup {Qty("str", TRUE, FALSE, w, f) : w \in {4, 10}, f \in {<<>>, <<0>>, <<5>>}}
    \cup {Qty("int", TRUE, n, w, <<>>) : n \in BOOLEAN, w \in {4, 10}}
    \cup {Qty("float", TRUE, FALSE, w, <<5>>) : w \in {4, 10}}

ToMsCall ==
    /\ pc = "idle"
    /\ UNCHANGED <<credentials_table, SESSION_STORE, meta>>
    /\ \E v \in ToMsInputs :
          /\ req' = [fn |-> "to_ms", arg |-> v]
          /\ results' = <<to_ms(v)>>
    /\ pc' = "done"
    /\ UNCHANGED <<cred, selected, idx, fs, orders, errors, outcome, abort,
                   probes, hist, lastResp>>

ToBoolCall ==
    /\ pc = "idle"
    /\ UNCHANGED <<credentials_table, SESSION_STORE, meta>>
    /\ \E v \in ToBoolInputs :
          /\ req' = [fn |-> "to_bool", arg |-> v]
          /\ results' = <<to_bool(v)>>
    /\ pc' = "done"
    /\ UNCHANGED <<cred, selected, idx, fs, orders, errors, outcome, abort,
                   probes, hist, lastResp>>

ExecutedQtyCall ==
    /\ pc = "idle"
    /\ UNCHANGED <<credentials_table, SESSION_STORE, meta>>
    /\ \E a \in QtyValues, b \in QtyValues, c \in {QtyAbsent, QtyNull, Qty("str", TRUE, FALSE, 6, <<>>)} :
          /\ req' = [fn |-> "executed_qty",
                     arg |-> [size |-> a, left |-> b, filled_amount |-> c]]
          /\ results' = <<gate_executed_qty([size |-> a, left |-> b, filled_amount |-> c])>>
    /\ pc' = "done"
    /\ UNCHANGED <<cred, selected, idx, fs, orders, errors, outcome, abort,
                   probes, hist, lastResp>>

InitConvert == pc = "idle" /\ InitCommon /\ lastResp = NoResp

NextConvert == ToMsCall \/ ToBoolCall \/ ExecutedQtyCall

SpecConvert == InitConvert /\ [][NextConvert]_vars

Called(fn) == pc = "done" /\ "fn" \in DOMAIN req /\ req.fn = fn

\* C21: for a Gate order without filled_amount whose size and left are
\* numbers, executed_qty is the text of |size| - |left|, written without a
\* fractional part when the difference is whole (size "10", left "4": "6").
C21_GateExecutedQty ==
    (/\ Called("executed_qty")
     /\ QtyGet(req.arg.filled_amount) = QtyNull
     /\ req.arg.size.ok /\ req.arg.left.ok) =>
        LET d == AbsOf(FloatOf(req.arg.size)) - AbsOf(FloatOf(req.arg.left)) IN
        /\ results[1].j = "str"
        /\ results[1].neg = (d < 0)
        /\ results[1].whole = AbsOf(d) \div 10
        /\ results[1].frac = IF AbsOf(d) % 10 = 0 THEN <<>> ELSE <<AbsOf(d) % 10>>

\* The number a timestamp input stands for, when it is one.
TsNumeric(v) == v.t \in {"int", "float"} \/ (v.t = "str" /\ v.shape \in {"num", "padded"})

\* C22: for a numeric input v, to_ms gives v when v > 10^12, v * 1000 when
\* 10^9 < v <= 10^12 and v when v <= 10^9; null, empty and non-numeric
\* inputs give absent.
C22_ToMs ==
    Called("to_ms") =>
        LET v == req.arg IN
        IF TsNumeric(v)
        THEN /\ results[1].k = "int"
             /\ IF Gt9(v) /\ ~Gt12(v)
                THEN results[1] = TsInt(v.neg, v.hi * MsPerSecond + v.lo \div Mega,
                                        (v.lo % Mega) * MsPerSecond + v.f * 100)
                ELSE v.f = 0 /\ results[1] = TsInt(v.neg, v.hi, v.lo)
        ELSE results[1] = TsNone

\* The inputs the claim names as known: native booleans, the numbers 0 and
\* 1, and the six texts whatever their case.
C23_ListedAsKnown(v) ==
    \/ v.t = "bool"
    \/ v.t \in {"int", "float"} /\ v.n \in {0, 10}
    \/ v.t = "str" /\ v.s \in {"true", "TRUE", "false", "False", "yes", "YES",
                               "no", "No", "1", "0"}

\* C23 as stated: to_bool gives a boolean exactly for the listed inputs,
\* and unknown for every other input.
C23_Original ==
    Called("to_bool") => (results[1] # "None" <=> C23_ListedAsKnown(req.arg))

\* C23, amended: to_bool gives a boolean exactly for native booleans, for
\* every number (false for zero, true otherwise) and for the texts true,
\* yes, y, 1 (true) and false, no, n, 0 (false) after trimming spaces and
\* ignoring case; every other input gives unknown.
C23_ToBool ==
    Called("to_bool") =>
        LET v == req.arg
            text == StripLower(v.s)
        IN /\ results[1] = "True" <=>
                \/ v.t \in {"bool", "int", "float"} /\ v.n # 0
                \/ v.t = "str" /\ text \in {"true", "yes", "y", "1"}
           /\ results[1] = "False" <=>
                \/ v.t \in {"bool", "int", "float"} /\ v.n = 0
                \/ v.t = "str" /\ text \in {"false", "no", "n", "0"}
           /\ results[1] = "None" <=>
                \/ v.t \in {"null", "list"}
                \/ v.t = "str" /\ text \notin {"true", "yes", "y", "1",
                                               "false", "no", "n", "0"}

\* The text "y" was given and true came back.
C23_Witness ==
    /\ Called("to_bool")
    /\ req.arg.t = "str" /\ req.arg.s = "Y"
    /\ results[1] = "True"

----------------------------------------------------------------------------
(* The credential store: the table credentials of db.py, the handler       *)
(* upsert_credentials (main.py 562-595) that saves into it and             *)
(* load_exchange_credentials (main.py 290-316) that reads from it.         *)

\* The columns init_db gives the table (db.py 42-51); of a row the model
\* keeps exchange, label and the two encrypted texts.
CredentialColumns ==
    {"id", "exchange", "label", "api_key_enc", "api_secret_enc",
     "created_at", "updated_at"}

\* fernet.encrypt and fernet.decrypt of one session key
FernetEncrypt(text) == <<"fernet", text>>
FernetDecrypt(token) == token[2]

\* db.get_credentials: the rows of the pair (fetchone: None when empty)
get_credentials(tbl, exchange, label) ==
    {row \in tbl : row.exchange = exchange /\ row.label = label}

\* db.upsert_credentials takes conn, exchange, label, api_key_enc,
\* api_secret_enc
UPSERT_PARAMS == 5

\* db.upsert_credentials: update the row of the pair, or insert one
db_upsert_credentials(tbl, exchange, label, api_key_enc, api_secret_enc) ==
    {row \in tbl : ~(row.exchange = exchange /\ row.label = label)}
    \cup {[exchange |-> exchange, label |-> label,
           api_key_enc |-> api_key_enc, api_secret_enc |-> api_secret_enc]}

\* get_session and get_fernet_from_request: the status it raises, 0 when
\* it returns the fernet of the session
FernetDenied(session) ==
    CASE session = "none" -> 401
      [] session = "no_totp" -> 403
      [] session = "unverified" -> 401
      [] OTHER -> 0

VaultResult(ok, status, error, api_key, api_secret, api_passphrase) ==
    [ok |-> ok, status |-> status, error |-> error, api_key |-> api_key,
     api_secret |-> api_secret, api_passphrase |-> api_passphrase]
VaultError(status, error) == VaultResult(FALSE, status, error, "", "", "")

\* The arguments the handler passes to db.upsert_credentials (main.py 583)
UpsertArguments(exchange, label, api_key_enc, api_secret_enc, api_passphrase_enc) ==
    <<"conn", exchange, label, api_key_enc, api_secret_enc, api_passphrase_enc>>

\* main.upsert_credentials: the table it leaves and what it answers
upsert_credentials(tbl, payload, session) ==
    LET exchange == normalize_exchange(payload.exchange)
        label == normalize_label(payload.label)
        passphrase_raw == Strip(payload.api_passphrase)
        args == UpsertArguments(exchange, label, FernetEncrypt(payload.api_key),
                                FernetEncrypt(payload.api_secret),
                                IF passphrase_raw # "" THEN FernetEncrypt(passphrase_raw)
                                ELSE <<>>)
        stored == db_upsert_credentials(tbl, args[2], args[3], args[4], args[5])
    IN  IF exchange \notin SUPPORTED_EXCHANGES
        THEN [table |-> tbl, result |-> VaultError(400, "Unsupported exchange")]
        ELSE IF label = ""
        THEN [table |-> tbl, result |-> VaultError(400, "Label is required")]
        ELSE IF exchange = EXCHANGE_OKX /\ passphrase_raw = ""
        THEN [table |-> tbl, result |-> VaultError(400, "OKX requires api_passphrase")]
        ELSE IF FernetDenied(session) # 0
        THEN [table |-> tbl, result |-> VaultError(FernetDenied(session), "session")]
        ELSE IF Len(args) # UPSERT_PARAMS
        THEN [table |-> tbl, result |-> VaultError(500, "TypeError")]
        ELSE IF get_credentials(stored, exchange, label) = {}
        THEN [table |-> stored, result |-> VaultError(500, "Failed to save credentials")]
        ELSE IF "api_passphrase_enc" \notin CredentialColumns
        THEN [table |-> stored, result |-> VaultError(500, "IndexError")]
        ELSE [table |-> stored,
              result |-> VaultResult(TRUE, 200, "", payload.api_key, "", "")]

\* load_exchange_credentials
load_exchange_credentials(tbl, session, exchange, label) ==
    LET first == get_credentials(tbl, exchange, label)
        rows == IF first = {} /\ exchange = EXCHANGE_OKX
                THEN get_credentials(tbl, "okex", label) ELSE first
    IN  IF rows = {}
        THEN VaultError(400, "credentials not set")
        ELSE IF FernetDenied(session) # 0
        THEN VaultError(FernetDenied(session), "session")
        ELSE IF "api_passphrase_enc" \notin CredentialColumns
        THEN VaultError(400, "Failed to decrypt credentials")
        ELSE LET row == CHOOSE r \in rows : TRUE IN
             VaultResult(TRUE, 200, "", FernetDecrypt(row.api_key_enc),
                         FernetDecrypt(row.api_secret_enc), "")

CredentialPayloads ==
    {[exchange |-> e, label |-> l, api_key |-> k[1], api_secret |-> k[2],
      api_passphrase |-> pp] :
        e \in {"binance", "okex", "kraken"}, l \in {"main", " "},
        k \in {<<"k1", "s1">>, <<"k2", "s2">>}, pp \in {"", "pp"}}

Sessions == {"verified", "unverified", "no_totp"}

\* One POST /api/credentials
SaveCredential ==
    /\ pc = "idle"
    /\ Len(hist) < MaxOps
    /\ \E payload \in CredentialPayloads, session \in Sessions :
          LET done == upsert_credentials(credentials_table, payload, session) IN
          /\ credentials_table' = done.table
          /\ UNCHANGED <<SESSION_STORE, meta>>
          /\ results' = Append(results, done.result)
          /\ hist' = Append(hist, [op |-> "save",
                                   exchange |-> normalize_exchange(payload.exchange),
                                   label |-> normalize_label(payload.label),
                                   session |-> session,
                                   api_key |-> payload.api_key,
                                   api_secret |-> payload.api_secret,
                                   api_passphrase |-> Strip(payload.api_passphrase)])
    /\ UNCHANGED <<pc, req, cred, selected, idx, fs, orders, errors, outcome,
                   abort, probes, lastResp>>

\* One call of load_exchange_credentials by a handler, with the
\* normalized exchange and label of its request
LoadCredential ==
    /\ pc = "idle"
    /\ Len(hist) < MaxOps
    /\ \E exchange \in {EXCHANGE_BINANCE, EXCHANGE_OKX}, label \in {"main", "alt"},
          session \in {"verified", "unverified"} :
          /\ results' = Append(results,
                load_exchange_credentials(credentials_table, session, exchange, label))
          /\ hist' = Append(hist, [op |-> "load", exchange |-> exchange,
                                   label |-> label, session |-> session,
                                   api_key |-> "", api_secret |-> "",
                                   api_passphrase |-> ""])
    /\ UNCHANGED <<pc, req, cred, selected, idx, fs, orders, errors, outcome,
                   abort, probes, lastResp, credentials_table, SESSION_STORE, meta>>

\* The database file is new, or holds a row written by
\* db.upsert_credentials called with its five arguments.
InitialTables ==
    {{}, db_upsert_credentials({}, EXCHANGE_BINANCE, "alt",
                               FernetEncrypt("k0"), FernetEncrypt("s0"))}

InitVault ==
    /\ pc = "idle"
    /\ req = [exchange |-> "", account |-> ""]
    /\ cred = NoCred /\ selected = <<>> /\ idx = 0 /\ fs = IdleFetch
    /\ orders = <<>> /\ errors = <<>> /\ results = <<>>
    /\ outcome = "none" /\ abort = "" /\ probes = <<>> /\ hist = <<>>
    /\ lastResp = NoResp
    /\ credentials_table \in InitialTables
    /\ SESSION_STORE = <<>>
    /\ meta = NoMeta

NextVault == SaveCredential \/ LoadCredential

SpecVault == InitVault /\ [][NextVault]_vars

\* A save the handler has no reason to refuse: a supported exchange, a
\* label, a passphrase for OKX, a verified session.
WellFormedSave(h) ==
    /\ h.op = "save"
    /\ h.exchange \in SUPPORTED_EXCHANGES
    /\ h.label # ""
    /\ h.exchange = EXCHANGE_OKX => h.api_passphrase # ""
    /\ h.session = "verified"

SamePair(h, g) == h.exchange = g.exchange /\ h.label = g.label

\* C24: a load in a verified session that follows a save of the same
\* (exchange, label) pair returns exactly the saved key, secret and
\* passphrase; a load of a pair never saved fails with credentials not
\* set; the table never holds two rows of one pair.
C24_VaultRoundTrip ==
    /\ \A i \in 1..Len(hist), j \in 1..Len(hist) :
          (/\ i < j
           /\ WellFormedSave(hist[i])
           /\ hist[j].op = "load" /\ hist[j].session = "verified"
           /\ SamePair(hist[i], hist[j])
           /\ \A k \in (i + 1)..(j - 1) : hist[k].op = "load") =>
              /\ results[j].ok
              /\ results[j].api_key = hist[i].api_key
              /\ results[j].api_secret = hist[i].api_secret
              /\ results[j].api_passphrase = hist[i].api_passphrase
    /\ \A j \in 1..Len(hist) :
          (/\ hist[j].op = "load"
           /\ get_credentials(credentials_table, hist[j].exchange, hist[j].label) = {}
           /\ \A i \in 1..(j - 1) : ~(hist[i].op = "save" /\ SamePair(hist[i], hist[j]))) =>
              results[j].error = "credentials not set"
    /\ \A r1 \in credentials_table, r2 \in credentials_table :
          (r1.exchange = r2.exchange /\ r1.label = r2.label) => r1 = r2

----------------------------------------------------------------------------
(* One paginated fetch_open_orders call of Gate or OKX, with the requests  *)
(* it sends kept in hist.                                                  *)

PagingBatches ==
    { EmptyBatch,
      [n |-> 0, bad |-> 0, junk |-> 1, last |-> ""],
      [n |-> 1, bad |-> 0, junk |-> 0, last |-> "a"],
      [n |-> PAGE_LIMIT - 1, bad |-> 0, junk |-> 1, last |-> "a"],
      [n |-> PAGE_LIMIT, bad |-> 0, junk |-> 0, last |-> "a"],
      [n |-> PAGE_LIMIT, bad |-> 0, junk |-> 0, last |-> "b"],
      [n |-> PAGE_LIMIT, bad |-> 0, junk |-> 0, last |-> ""] }

PagingResponses ==
    {TransportError, [net |-> TRUE, status |-> 404, body |-> NotJsonBody]}
    \cup {[net |-> TRUE, status |-> HTTP_OK, body |-> ListBody(b)] : b \in PagingBatches}
    \cup {[net |-> TRUE, status |-> HTTP_OK,
           body |-> ObjBody(AbsentField, JStr("0"), ListField(b), FALSE)] :
              b \in PagingBatches}

\* params of the request the call is about to send: page and limit for
\* Gate; limit, and after when it is set, for OKX (page 0: no page sent)
RequestParams(f) ==
    [page |-> IF f.ex = EXCHANGE_GATE THEN f.page ELSE 0,
     limit |-> PAGE_LIMIT,
     after |-> IF f.ex = EXCHANGE_OKX THEN f.after ELSE ""]

\* The array the adapter reads from a response it accepts.
BatchRead(f, r) ==
    CASE f.ex = EXCHANGE_OKX -> r.body.data.list
      [] f.src = GATE_SOURCE_SPOT -> GateSpotBatch(r.body).list
      [] OTHER -> GateFuturesBatch(r.body).list

PagingStart(ex, src) ==
    /\ pc = "idle"
    /\ pc' = "paging"
    /\ fs' = fetch_open_orders(ex, src)
    /\ UNCHANGED <<req, cred, selected, idx, orders, errors, results, outcome, abort,
                   probes, hist, lastResp, credentials_table, SESSION_STORE, meta>>

\* One request of the loop and its response.  The while loop of Gate has no
\* bound of its own: the model follows it for MaxPages requests.
PagingStep(r) ==
    /\ pc = "paging"
    /\ fs.st = "run"
    /\ fs.ex = EXCHANGE_GATE => fs.page <= MaxPages
    /\ LET f == OnResponse(fs, r) IN
       /\ fs' = f
       /\ hist' = Append(hist, [params |-> RequestParams(fs),
                                accepted |-> f.st # "err",
                                batch |-> IF f.st # "err" THEN BatchRead(fs, r)
                                          ELSE EmptyBatch])
    /\ lastResp' = r
    /\ UNCHANGED <<pc, req, cred, selected, idx, orders, errors, results, outcome,
                   abort, probes, credentials_table, SESSION_STORE, meta>>

NextPaging ==
    \/ \E ex \in {EXCHANGE_OKX, EXCHANGE_GATE} : \E src \in SourcesOf(ex) :
          PagingStart(ex, src)
    \/ \E r \in PagingResponses : PagingStep(r)

SpecPaging == Init /\ [][NextPaging]_vars

GateCall == pc = "paging" /\ fs.ex = EXCHANGE_GATE
OkxCall == pc = "paging" /\ fs.ex = EXCHANGE_OKX

\* The batches of order objects that were added to the result.
AddedBatches == {i \in 1..Len(hist) : hist[i].accepted /\ hist[i].batch.n > 0}

\* C25: a Gate call requests the pages 1, 2, 3, ... with limit 100, each
\* once; after a batch the next page is requested exactly when the batch
\* holds at least 100 orders; an empty batch ends the loop and adds
\* nothing; the result is the batches received, in page order.
C25_GatePagination ==
    GateCall =>
        /\ \A i \in 1..Len(hist) :
              /\ hist[i].params.page = i
              /\ hist[i].params.limit = 100
              /\ i < Len(hist) => (hist[i].accepted /\ hist[i].batch.n >= 100)
        /\ Len(hist) > 0 =>
              LET h == hist[Len(hist)] IN
              /\ fs.st = "run" <=> (h.accepted /\ h.batch.n >= 100)
              /\ fs.st = "run" => fs.page = Len(hist) + 1
              /\ (h.accepted /\ h.batch.n = 0) =>
                    (fs.st = "ok" /\ Len(fs.acc) = Len(hist) - 1)
        /\ Len(fs.acc) = Cardinality(AddedBatches)
        /\ \A i \in 1..Len(fs.acc) :
              /\ i \in AddedBatches
              /\ fs.acc[i] = DictsOnly(hist[i].batch, i)

\* Three full pages were received and a fourth request is due.
C25_Witness ==
    /\ GateCall
    /\ Len(hist) = MaxPages
    /\ fs.st = "run" /\ fs.page = MaxPages + 1
    /\ Len(fs.acc) = MaxPages

\* The stop conditions the claim names, for the batch of the last request.
OkxStopsAsClaimed(h) ==
    \/ h.batch.n < 100
    \/ Strip(h.batch.last) = h.params.after
    \/ Len(hist) = 20

\* C26 as stated: after a batch the loop stops exactly when the batch has
\* fewer than 100 entries, or the new cursor equals the previous one, or 20
\* rounds have been made.
C26_Original ==
    (OkxCall /\ Len(hist) > 0 /\ hist[Len(hist)].accepted) =>
        (fs.st = "ok" <=> OkxStopsAsClaimed(hist[Len(hist)]))

\* C26, amended: the first request carries no after; every later request
\* carries the ordId of the last order of the batch before it, which is
\* not empty and differs from the after of the request before; the loop
\* stops exactly when the batch has fewer than 100 orders, or its last
\* order has no ordId, or the new cursor equals the previous one, or 20
\* rounds have been made.
C26_OkxCursor ==
    OkxCall =>
        /\ \A i \in 1..Len(hist) :
              /\ hist[i].params.limit = 100
              /\ i = 1 => hist[i].params.after = ""
              /\ i > 1 =>
                    /\ hist[i - 1].accepted
                    /\ hist[i].params.after = Strip(hist[i - 1].batch.last)
                    /\ hist[i].params.after # ""
                    /\ hist[i].params.after # hist[i - 1].params.after
        /\ (Len(hist) > 0 /\ hist[Len(hist)].accepted) =>
              LET h == hist[Len(hist)] IN
              /\ fs.st = "ok" <=>
                    (OkxStopsAsClaimed(h) \/ Strip(h.batch.last) = "")
              /\ fs.st = "run" => fs.after = Strip(h.batch.last)

\* A second request went out with the cursor of the first batch, and the
\* loop stopped on a full batch whose last order has no ordId.
C26_Witness ==
    /\ OkxCall
    /\ Len(hist) = 2
    /\ hist[2].params.after = "a"
    /\ hist[2].accepted /\ hist[2].batch.n = 100 /\ hist[2].batch.last = ""
    /\ fs.st = "ok"

RECURSIVE OrdersIn(_)
OrdersIn(acc) == IF acc = <<>> THEN 0 ELSE acc[1].n + OrdersIn(Tail(acc))

\* C27: one OKX call sends at most 20 requests, a request being due only
\* while fewer than 20 were sent; when the 20th batch is still full the
\* call returns the orders of all 20 batches, at most 2000, as a success.
C27_OkxRoundCap ==
    OkxCall =>
        /\ Len(hist) <= 20
        /\ fs.st = "run" => Len(hist) < 20
        /\ OrdersIn(fs.acc) <= 2000
        /\ (Len(hist) = 20 /\ hist[20].accepted /\ hist[20].batch.n >= 100) =>
              /\ fs.st = "ok"
              /\ fs.err = NoErr
              /\ Len(fs.acc) = 20

\* Twenty full batches were received and the call returned 2000 orders.
C27_Witness ==
    /\ OkxCall
    /\ Len(hist) = 20
    /\ hist[20].accepted /\ hist[20].batch.n = 100 /\ hist[20].batch.last # ""
    /\ fs.st = "ok"
    /\ OrdersIn(fs.acc) = 2000

\* C28: a Gate call sends a bounded number of requests: once MaxPages
\* requests were sent it has returned or failed.
C28_GateTerminates ==
    (GateCall /\ Len(hist) >= MaxPages) => fs.st \in {"ok", "err"}

----------------------------------------------------------------------------
(* Properties of the loop over the sources of a query, under Spec; the     *)
(* entry of hist of a finished source tells how many requests it got.      *)

\* The order in which the handler appends the sources of an exchange.
FixedOrder(exchange) ==
    CASE exchange = EXCHANGE_BINANCE ->
             <<"papi_um", "papi_spot", "fapi_um", "spot">>
      [] exchange = EXCHANGE_OKX -> <<"okx_swap", "okx_spot", "okx_margin">>
      [] OTHER -> <<"gate_spot", "gate_futures">>

InFixedOrder ==
    LET order == FixedOrder(normalize_exchange(req.exchange)) IN
    /\ \A i \in DOMAIN selected : \E k \in DOMAIN order : order[k] = selected[i]
    /\ \A i \in DOMAIN selected : \A j \in DOMAIN selected :
          i < j => PositionIn(order, selected[i]) < PositionIn(order, selected[j])

\* C29: the sources of a query are processed in the fixed order of the
\* exchange, one after the other; a request goes only to the source after
\* the finished ones; a Binance source gets exactly one request; the
\* request that fails is the last one of its source, and the next source
\* is attempted all the same.
C29_SequentialFanOut ==
    (pc \in {"sources", "done"} /\ outcome # "abort" /\ "exchange" \in DOMAIN req
       /\ selected # <<>>) =>
        /\ InFixedOrder
        /\ Len(hist) <= Len(selected)
        /\ \A i \in DOMAIN hist :
              /\ hist[i].source = selected[i]
              /\ hist[i].requests >= 1
              /\ normalize_exchange(req.exchange) = EXCHANGE_BINANCE =>
                    hist[i].requests = 1
              /\ ~hist[i].fetched => hist[i].requests = Len(hist[i].acc) + 1
        /\ pc = "sources" =>
              /\ fs.st = "run"
              /\ idx = Len(hist) + 1
              /\ fs.src = selected[idx]
              /\ fs.page = Len(fs.acc) + 1
        /\ pc = "done" => Len(hist) = Len(selected)

\* The first source failed on a timeout of its only request, and the
\* second source got its request and returned.
C29_Witness ==
    /\ outcome = "result"
    /\ normalize_exchange(req.exchange) = EXCHANGE_BINANCE
    /\ Len(hist) >= 2
    /\ ~hist[1].fetched /\ hist[1].requests = 1
    /\ \E e \in DOMAIN errors : errors[e].source = hist[1].source
                                  /\ errors[e].err.kind = "transport"
    /\ hist[2].fetched

\* C30: in every returned result each selected source has either orders
\* and no error entry, or exactly one error entry and no orders.
C30_AllOrNothing ==
    outcome = "result" =>
        \A i \in DOMAIN hist :
            /\ Len(ErrorsOf(hist[i].source)) <= 1
            /\ ErrorsOf(hist[i].source) # <<>> => OrdersOf(hist[i].source) = <<>>

----------------------------------------------------------------------------
(* binance.parse_account_type, and detect_account_mode on the body of a    *)
(* 2xx unified probe.  A JSON value is a node [t, s, items]: t is "obj",   *)
(* "list", "str", "bool", "num" or "null"; s the text of a scalar; items   *)
(* the members <<[k, v], ...>> of an object in document order (the order   *)
(* dict.items() yields them in) or the elements of a list (k = "").        *)

SEARCH_DEPTH == 6   \* if depth > 6: return None

JObj(items) == [t |-> "obj", s |-> "", items |-> items]
JList(items) == [t |-> "list", s |-> "", items |-> items]
JScalar(t, s) == [t |-> t, s |-> s, items |-> <<>>]
Member(k, v) == [k |-> k, v |-> v]

PORTFOLIO_KEYS == {"portfolioMargin", "isPortfolioMargin", "portfolioMarginAccount"}

\* What one call of _search reports: found is the value returned ("" for
\* None), hit the member that made it return (<<>>: none, else <<[k, v]>>),
\* keys the depths of the objects whose keys were looked at, visits the
\* number of values added to visited.
SearchResult(found, hit, keys, visits) ==
    [found |-> found, hit |-> hit, keys |-> keys, visits |-> visits]
NothingFound(keys, visits) == SearchResult("", <<>>, keys, visits)
Joined(a, b) == SearchResult(b.found, b.hit, a.keys \cup b.keys, a.visits + b.visits)

\* variant: the values at depth 6 are given up too
TooDeepMut(depth) == depth >= SEARCH_DEPTH
\* if depth > 6: return None
TooDeep(depth) == depth > SEARCH_DEPTH

\* key in {...} and isinstance(value, bool) and value
IsTrueFlag(key, value) ==
    key \in PORTFOLIO_KEYS /\ value.t = "bool" /\ value.s = "true"

\* variant: the text of accountType is returned as it stands
AccountTypeOfMut(key, value) ==
    IF key = "accountType" /\ value.t = "str" THEN value.s ELSE ""
\* key == "accountType" and isinstance(value, str) and value.strip():
\* value.strip().upper(), "" when the test fails
AccountTypeOf(key, value) ==
    IF key = "accountType" /\ value.t = "str" /\ Strip(value.s) # ""
    THEN Upper(Strip(value.s))
    ELSE ""

\* _search(obj, depth).  visited holds id(obj) of the values seen; the
\* containers of a parsed body are all distinct objects, so that the guard
\* never stops the search of one, and a scalar met twice has nothing to
\* search: the guard is left out and the values seen are counted.
RECURSIVE _search(_, _), SearchMembers(_, _, _)
_search(obj, depth) ==
    IF TooDeep(depth) THEN NothingFound({}, 0)
    ELSE IF obj.t = "obj"
    THEN Joined(NothingFound({depth}, 1), SearchMembers(obj, 1, depth))
    ELSE IF obj.t = "list"
    THEN Joined(NothingFound({}, 1), SearchMembers(obj, 1, depth))
    ELSE NothingFound({}, 1)

\* for key, value in obj.items() / for item in obj, from member i on
SearchMembers(obj, i, depth) ==
    IF i > Len(obj.items) THEN NothingFound({}, 0)
    ELSE LET key == obj.items[i].k
             value == obj.items[i].v
         IN  IF obj.t = "obj" /\ AccountTypeOf(key, value) # ""
             THEN SearchResult(AccountTypeOf(key, value), <<obj.items[i]>>, {}, 0)
             ELSE IF obj.t = "obj" /\ IsTrueFlag(key, value)
             THEN SearchResult("PORTFOLIO", <<obj.items[i]>>, {}, 0)
             ELSE LET found == _search(value, depth + 1)
                  IN  IF found.found # "" THEN found
                      ELSE Joined(found, SearchMembers(obj, i + 1, depth))

\* parse_account_type(data) / detect_account_mode lines 228-231:
\* data = json.loads(papi_body), {} when that raises JSONDecodeError
ParsedBody(body) == IF body.t = "notjson" THEN JObj(<<>>) ELSE body
SearchOfBody(body) == _search(ParsedBody(body), 0)

\* The members a probe body is made of.
AccountMembers ==
    {Member("accountType", JScalar("str", a)) :
         a \in {"STANDARD", "UNIFIED", "PORTFOLIO", "MARGIN", " standard ", " "}}
    \cup {Member("accountType", JScalar("num", "1")),
          Member("portfolioMargin", JScalar("bool", "true")),
          Member("portfolioMargin", JScalar("bool", "false")),
          Member("portfolioMargin", JScalar("str", "true")),
          Member("isPortfolioMargin", JScalar("bool", "true")),
          Member("portfolioMarginAccount", JScalar("bool", "true")),
          Member("canTrade", JScalar("bool", "true"))}
Leaves ==
    {JObj(<<m>>) : m \in AccountMembers}
    \cup {JObj(<<m, n>>) : m \in AccountMembers, n \in AccountMembers}
TailMembers ==
    {<<>>, <<Member("portfolioMargin", JScalar("bool", "true"))>>,
     <<Member("accountType", JScalar("str", "UNIFIED"))>>}

\* leaf wrapped n times: in an object under "data", or in a list
RECURSIVE Wrapped(_, _, _)
Wrapped(leaf, kind, n) ==
    IF n = 0 THEN leaf
    ELSE IF kind = "obj" THEN JObj(<<Member("data", Wrapped(leaf, kind, n - 1))>>)
    ELSE JList(<<Member("", Wrapped(leaf, kind, n - 1))>>)

NotJsonText == [t |-> "notjson", s |-> "<html>", items |-> <<>>]

\* The unified probe answers 2xx with some body.
ParseStart ==
    /\ pc = "parse_body"
    /\ UNCHANGED <<credentials_table, SESSION_STORE, meta>>
    /\ \E status \in {200, 201} :
          \/ \E leaf \in Leaves :
                lastResp' = [net |-> TRUE, status |-> status, body |-> leaf]
          \/ \E leaf \in Leaves, kind \in {"obj", "list"}, n \in 0..(MaxNest - 1),
                tl \in TailMembers :
                lastResp' = [net |-> TRUE, status |-> status,
                             body |-> JObj(<<Member("data", Wrapped(leaf, kind, n))>> \o tl)]
          \/ \E leaf \in Leaves :
                lastResp' = [net |-> TRUE, status |-> status,
                             body |-> JList(<<Member("", leaf)>>)]
          \/ \E b \in {NotJsonText, JScalar("num", "1"), JScalar("null", ""),
                       JScalar("str", "STANDARD"), JObj(<<>>), JList(<<>>)} :
                lastResp' = [net |-> TRUE, status |-> status, body |-> b]
    /\ pc' = "parse_search"
    /\ UNCHANGED <<req, cred, selected, idx, fs, orders, errors, results, outcome,
                   abort, probes, hist>>

\* detect_account_mode, lines 227-243: the body is parsed and searched,
\* the dict of the unified probe is returned; hist keeps the search.
ParseUnified ==
    /\ pc = "parse_search"
    /\ UNCHANGED <<credentials_table, SESSION_STORE, meta>>
    /\ LET search == SearchOfBody(lastResp.body)
           r == [json |-> TRUE, found |-> search.found]
       IN  /\ hist' = <<search>>
           /\ results' = <<DetectResult(ModeOfUnifiedProbe(r), "PAPI",
                                        <<lastResp.status>>, <<>>)>>
    /\ pc' = "done"
    /\ outcome' = "result"
    /\ UNCHANGED <<req, cred, selected, idx, fs, orders, errors, abort, probes,
                   lastResp>>

InitParse == pc = "parse_body" /\ InitCommon /\ lastResp = NoResp

NextParse == ParseStart \/ ParseUnified

SpecParse == InitParse /\ [][NextParse]_vars

----------------------------------------------------------------------------
(* Properties of the account-type search, under SpecParse.                 *)

TrueFlagMember(m) ==
    /\ m.k \in {"portfolioMargin", "isPortfolioMargin", "portfolioMarginAccount"}
    /\ m.v = JScalar("bool", "true")
AccountTypeMember(m) ==
    m.k = "accountType" /\ m.v.t = "str" /\ m.v.s \notin {"", " "}
MemberIs(which, m) ==
    CASE which = "flag" -> TrueFlagMember(m)
      [] which = "type" -> AccountTypeMember(m)
      [] OTHER -> TrueFlagMember(m) \/ AccountTypeMember(m)

\* The depths (root = 0) of the objects of v that hold a member of the
\* kind which ("flag", "type" or "match"), v itself being at depth.
RECURSIVE DepthsWhere(_, _, _)
DepthsWhere(v, depth, which) ==
    (IF v.t = "obj" /\ \E i \in DOMAIN v.items : MemberIs(which, v.items[i])
     THEN {depth} ELSE {})
    \cup UNION {DepthsWhere(v.items[i].v, depth + 1, which) : i \in DOMAIN v.items}

\* The number of values of v, v included.
RECURSIVE NodeCount(_), NodeCountFrom(_, _)
NodeCount(v) == 1 + NodeCountFrom(v, 1)
NodeCountFrom(v, i) ==
    IF i > Len(v.items) THEN 0
    ELSE NodeCount(v.items[i].v) + NodeCountFrom(v, i + 1)

Searched == pc = "done" /\ Len(hist) = 1 /\ Len(results) = 1
BodyParsed == ParsedBody(lastResp.body)

\* C31: whenever the body of the 2xx unified probe holds, within the
\* search depth, a portfolio flag set to true, the resolved mode is
\* Unified, whatever else the body holds and in whatever order.
C31_PortfolioFlagDecides ==
    (Searched /\ \E d \in DepthsWhere(BodyParsed, 0, "flag") : d <= 6) =>
        results[1].mode = "UNIFIED"

\* The first match of the search is an accountType with this text.
FirstAccountTypeIs(texts) ==
    /\ hist[1].hit # <<>>
    /\ hist[1].hit[1].k = "accountType"
    /\ hist[1].hit[1].v.s \in texts

C33_DepthLimit ==
    Searched =>
        LET depths == DepthsWhere(BodyParsed, 0, "match") IN
        /\ hist[1].visits <= NodeCount(BodyParsed)
        /\ hist[1].keys \subseteq 0..6
        /\ (\A d \in depths : d > 6) =>
              hist[1].found = "" /\ results[1].mode = "UNIFIED"
        /\ (\E d \in depths : d <= 6) => hist[1].found # ""

\* The only accountType of the body sits in an object at depth 7.
C33_Witness ==
    /\ Searched
    /\ DepthsWhere(BodyParsed, 0, "type") = {7}
    /\ DepthsWhere(BodyParsed, 0, "flag") = {}
    /\ hist[1].found = ""
    /\ 6 \in hist[1].keys
    /\ results[1].mode = "UNIFIED"

----------------------------------------------------------------------------
(* normalize_order, main.py 191-250: the canonical fields read from        *)
(* several candidate keys of the raw order.  One field of one exchange is  *)
(* mapped from the values found under its candidate keys.                  *)

FieldRule(exchange, field, keys, rule) ==
    [exchange |-> exchange, field |-> field, keys |-> keys, rule |-> rule]

\* The candidate keys of each field, in the order the code reads them, and
\* how it joins them: "or" (a or b or c), "is not None" (a if a is not
\* None else b).
FieldRules ==
    {FieldRule(EXCHANGE_BINANCE, "order_id", <<"orderId", "orderID", "order_id">>, "or"),
     FieldRule(EXCHANGE_BINANCE, "client_order_id",
               <<"clientOrderId", "client_order_id">>, "or"),
     FieldRule(EXCHANGE_BINANCE, "orig_qty", <<"origQty", "origQuantity">>, "or"),
     FieldRule(EXCHANGE_OKX, "order_id", <<"ordId", "orderId">>, "or"),
     FieldRule(EXCHANGE_OKX, "client_order_id", <<"clOrdId", "clientOrderId">>, "or"),
     FieldRule(EXCHANGE_OKX, "order_type", <<"ordType", "type">>, "or"),
     FieldRule(EXCHANGE_OKX, "status", <<"state", "status">>, "or"),
     FieldRule(EXCHANGE_OKX, "price", <<"px", "price">>, "or"),
     FieldRule(EXCHANGE_OKX, "orig_qty", <<"sz", "size">>, "or"),
     FieldRule(EXCHANGE_OKX, "executed_qty", <<"accFillSz", "filledSz", "fillSz">>, "or"),
     FieldRule(EXCHANGE_OKX, "time", <<"cTime", "createTime">>, "or"),
     FieldRule(EXCHANGE_OKX, "update_time", <<"uTime", "updateTime">>, "or"),
     FieldRule(EXCHANGE_OKX, "position_side", <<"posSide", "positionSide">>, "or"),
     FieldRule(EXCHANGE_GATE, "order_id", <<"id", "order_id", "orderId">>, "or"),
     FieldRule(EXCHANGE_GATE, "client_order_id",
               <<"text", "client_oid", "clientOrderId">>, "or"),
     FieldRule(EXCHANGE_GATE, "orig_qty", <<"amount", "size">>, "is not None"),
     FieldRule(EXCHANGE_GATE, "time", <<"create_time_ms", "create_time">>, "is not None"),
     FieldRule(EXCHANGE_GATE, "update_time",
               <<"update_time_ms", "update_time", "finish_time">>, "is not None")}

\* raw.get(k1) if raw.get(k1) is not None else raw.get(k2) ...
RECURSIVE NotNoneChain(_)
NotNoneChain(vals) ==
    IF Len(vals) = 1 THEN Get(vals[1])
    ELSE IF Get(vals[1]) # JNull THEN Get(vals[1])
    ELSE NotNoneChain(Tail(vals))

\* The value a field gets from the values under its candidate keys.
SelectCandidate(rule, vals) ==
    IF rule = "or" THEN OrChain(vals) ELSE NotNoneChain(vals)

CandidateValues ==
    {JAbsent, JNull, JStr(""), JStr("5"), JNum("0"), JNum("7"), JBool("false")}

\* The raw order arrives: the values under the candidate keys of one field.
MapStart ==
    /\ pc = "idle"
    /\ UNCHANGED <<credentials_table, SESSION_STORE, meta>>
    /\ \E f \in FieldRules, e \in {"binance", "okx", "okex", "gate"} :
       \E a \in CandidateValues, b \in CandidateValues, c \in CandidateValues :
          /\ normalize_exchange(e) = f.exchange
          /\ Len(f.keys) = 2 => c = JAbsent
          /\ req' = [exchange |-> e, rule |-> f,
                     raw |-> SubSeq(<<a, b, c>>, 1, Len(f.keys))]
    /\ pc' = "map"
    /\ UNCHANGED <<cred, selected, idx, fs, orders, errors, results, outcome,
                   abort, probes, hist, lastResp>>

\* normalize_order reads the field.
MapField ==
    /\ pc = "map"
    /\ UNCHANGED <<credentials_table, SESSION_STORE, meta>>
    /\ results' = <<[exchange |-> normalize_exchange(req.exchange),
                     field |-> req.rule.field,
                     value |-> SelectCandidate(req.rule.rule, req.raw)]>>
    /\ pc' = "done"
    /\ outcome' = "result"
    /\ UNCHANGED <<req, cred, selected, idx, fs, orders, errors, abort, probes,
                   hist, lastResp>>

InitMapping == pc = "idle" /\ InitCommon /\ lastResp = NoResp

NextMapping == MapStart \/ MapField

SpecMapping == InitMapping /\ [][NextMapping]_vars

\* The first of the values that is present and not null; null when there
\* is none.
RECURSIVE FirstNonNull(_)
FirstNonNull(vals) ==
    IF vals = <<>> THEN JNull
    ELSE IF Head(vals) \notin {JAbsent, JNull} THEN Head(vals)
    ELSE FirstNonNull(Tail(vals))

\* C34: every field with several candidate raw fields takes the value of
\* the first candidate that is present and not null, a false value (0, "",
\* false) included; a later candidate is used only when all the earlier
\* ones are null or absent.
C34_FirstNonNullWins ==
    (pc = "done" /\ Len(results) = 1) =>
        results[1].value = FirstNonNull(req.raw)

----------------------------------------------------------------------------
(* binance.build_query and request_signed, binance.py 58-78.  A text is    *)
(* the sequence of its characters; a parameter map is a function from key  *)
(* texts to value texts.                                                   *)

\* The characters of the model in ascending code point order.
CodeOrder ==
    <<" ", "%", "&", "+", "-", ".",
      "0", "1", "2", "3", "4", "5", "6", "7", "8", "9", "=",
      "A", "B", "C", "D", "E", "F", "I", "O", "S", "T", "U", "W", "_",
      "a", "b", "c", "d", "e", "g", "i", "l", "m", "n", "o", "p", "r", "s",
      "t", "u", "v", "w", "x", "y", "z", "~">>
Ord(c) == CHOOSE i \in DOMAIN CodeOrder : CodeOrder[i] = c

\* a < b for two texts, as Python compares str
RECURSIVE TextLess(_, _)
TextLess(a, b) ==
    IF b = <<>> THEN FALSE
    ELSE IF a = <<>> THEN TRUE
    ELSE IF Head(a) # Head(b) THEN Ord(Head(a)) < Ord(Head(b))
    ELSE TextLess(Tail(a), Tail(b))

\* sorted(..., key=lambda kv: kv[0]) on the keys of a dict
RECURSIVE SortedKeys(_)
SortedKeys(keys) ==
    IF keys = {} THEN <<>>
    ELSE LET m == CHOOSE k \in keys : \A o \in keys : o = k \/ TextLess(k, o)
         IN  <<m>> \o SortedKeys(keys \ {m})

\* The characters quote_plus(..., safe="-_.~") leaves as they are:
\* letters, digits and - _ . ~
SafeChars == {CodeOrder[i] : i \in DOMAIN CodeOrder} \ {" ", "%", "&", "+", "="}

\* %XX of a character that is not safe
Escape(c) ==
    CASE c = "%" -> <<"%", "2", "5">>
      [] c = "&" -> <<"%", "2", "6">>
      [] c = "+" -> <<"%", "2", "B">>
      [] OTHER -> <<"%", "3", "D">>

\* variant: nothing is escaped
QuotePlusMut(text) == text
\* urllib.parse.quote_plus(text, safe="-_.~"): a space becomes +
RECURSIVE QuotePlus(_)
QuotePlus(text) ==
    IF text = <<>> THEN <<>>
    ELSE (IF Head(text) \in SafeChars THEN <<Head(text)>>
          ELSE IF Head(text) = " " THEN <<"+">>
          ELSE Escape(Head(text)))
         \o QuotePlus(Tail(text))

\* urllib.parse.urlencode(items, safe="-_.~"): k=v joined with &
RECURSIVE UrlEncode(_, _)
UrlEncode(keys, params) ==
    IF keys = <<>> THEN <<>>
    ELSE QuotePlus(Head(keys)) \o <<"=">> \o QuotePlus(params[Head(keys)])
         \o (IF Len(keys) > 1 THEN <<"&">> ELSE <<>>)
         \o UrlEncode(Tail(keys), params)

\* build_query(params); str(v) of a text is the text
build_query(params) == UrlEncode(SortedKeys(DOMAIN params), params)

\* sign(query, secret): hmac-sha256 hexdigest, rendered here as the two
\* lowercase hex digits of a checksum of the secret and the query
HexDigits == <<"0", "1", "2", "3", "4", "5", "6", "7", "8", "9",
               "a", "b", "c", "d", "e", "f">>
RECURSIVE Checksum(_)
Checksum(text) ==
    IF text = <<>> THEN 0 ELSE (Ord(Head(text)) + 3 * Checksum(Tail(text))) % 256
sign(query, secret) ==
    LET d == Checksum(secret \o <<"&">> \o query)
    IN  <<HexDigits[(d \div 16) + 1], HexDigits[(d % 16) + 1]>>

K_recvWindow == <<"r", "e", "c", "v", "W", "i", "n", "d", "o", "w">>
K_timestamp == <<"t", "i", "m", "e", "s", "t", "a", "m", "p">>
K_signature == <<"s", "i", "g", "n", "a", "t", "u", "r", "e">>

\* q = dict(params); q.setdefault("recvWindow", "5000");
\* q["timestamp"] = str(now_ms())
SignedParams(params, now) ==
    [k \in DOMAIN params \cup {K_recvWindow, K_timestamp} |->
        IF k = K_timestamp THEN now
        ELSE IF k \in DOMAIN params THEN params[k]
        ELSE <<"5", "0", "0", "0">>]

\* f"...{path}?{query}&signature={signature}": what follows the ?
UrlQuery(query, signature) ==
    query \o <<"&">> \o K_signature \o <<"=">> \o signature

ParamKeys ==
    {<<"s", "y", "m", "b", "o", "l">>, <<"o", "r", "d", "e", "r", "I", "d">>, <<"o", "r", "i", "g", "C", "l", "i", "e", "n", "t", "O", "r", "d", "e", "r", "I", "d">>, K_recvWindow, <<"a", " ", "b">>,
     <<"A">>, <<"a", "&">>}
ParamValues ==
    {<<"B", "T", "C", "U", "S", "D", "T">>, <<"1", "2", "3">>, <<>>, <<"a", " ", "b">>, <<"a", "&", "b", "=", "c">>,
     <<"5", "0", "%">>, <<"1", "+", "1">>, <<"x", "-", "y", "_", "z", ".", "~">>}
Clock == {<<"1", "7", "0", "0">>, <<"1", "7", "0", "1">>}
Secrets == {<<"s", "1">>, <<"s", "2">>}

\* The caller's parameters, the secret and the clock of one request.
SignStart ==
    /\ pc = "idle"
    /\ UNCHANGED <<credentials_table, SESSION_STORE, meta>>
    /\ \E k1 \in ParamKeys, k2 \in ParamKeys, n \in 0..2 :
       \E v1 \in ParamValues, v2 \in ParamValues, secret \in Secrets, now \in Clock :
          /\ n < 2 => (k2 = k1 /\ v2 = v1)
          /\ n = 2 => TextLess(k1, k2)
          /\ req' = [params |-> [k \in (IF n = 0 THEN {} ELSE {k1, k2}) |->
                                    IF k = k1 THEN v1 ELSE v2],
                     api_secret |-> secret, now |-> now]
    /\ pc' = "sign"
    /\ UNCHANGED <<cred, selected, idx, fs, orders, errors, results, outcome,
                   abort, probes, hist, lastResp>>

\* request_signed up to the request: hist keeps the string that was signed
\* and the serialization of the caller's parameters alone, probes the
\* query part of the url requested.
RequestSigned ==
    /\ pc = "sign"
    /\ UNCHANGED <<credentials_table, SESSION_STORE, meta>>
    /\ LET q == SignedParams(req.params, req.now)
           query == build_query(q)
           signature == sign(query, req.api_secret)
       IN  /\ hist' = <<[q |-> q, query |-> query, signature |-> signature,
                         plain |-> build_query(req.params)]>>
           /\ probes' = <<UrlQuery(query, signature)>>
    /\ pc' = "done"
    /\ outcome' = "result"
    /\ UNCHANGED <<req, cred, selected, idx, fs, orders, errors, results, abort,
                   lastResp>>

InitSign == pc = "idle" /\ InitCommon /\ lastResp = NoResp

NextSign == SignStart \/ RequestSigned

SpecSign == InitSign /\ [][NextSign]_vars

----------------------------------------------------------------------------
(* Properties of the query serializer, under SpecSign.                     *)

\* The character %XY stands for.
Unescaped(x, y) ==
    CHOOSE c \in {"%", "&", "+", "="} : Escape(c) = <<"%", x, y>>

\* unquote_plus
RECURSIVE UnquotePlus(_)
UnquotePlus(text) ==
    IF text = <<>> THEN <<>>
    ELSE IF Head(text) = "+" THEN <<" ">> \o UnquotePlus(Tail(text))
    ELSE IF Head(text) = "%"
    THEN <<Unescaped(text[2], text[3])>> \o UnquotePlus(SubSeq(text, 4, Len(text)))
    ELSE <<Head(text)>> \o UnquotePlus(Tail(text))

\* The position of the first sep in text, 0 when there is none.
FirstAt(text, sep) ==
    IF \E i \in DOMAIN text : text[i] = sep
    THEN CHOOSE i \in DOMAIN text : text[i] = sep /\ \A j \in 1..(i - 1) : text[j] # sep
    ELSE 0

\* One k=v piece decoded.
DecodePair(piece) ==
    LET i == FirstAt(piece, "=")
    IN  IF i = 0 THEN <<UnquotePlus(piece), <<>>>>
        ELSE <<UnquotePlus(SubSeq(piece, 1, i - 1)),
               UnquotePlus(SubSeq(piece, i + 1, Len(piece)))>>

\* The pairs of a query string, blank values kept.
RECURSIVE Decode(_)
Decode(text) ==
    IF text = <<>> THEN <<>>
    ELSE LET i == FirstAt(text, "&")
         IN  IF i = 0 THEN <<DecodePair(text)>>
             ELSE <<DecodePair(SubSeq(text, 1, i - 1))>>
                  \o Decode(SubSeq(text, i + 1, Len(text)))

\* text decodes to exactly the pairs of params, keys ascending.
SerializationOf(text, params) ==
    LET pairs == Decode(text) IN
    /\ Len(pairs) = Cardinality(DOMAIN params)
    /\ \A i \in DOMAIN pairs :
          pairs[i][1] \in DOMAIN params /\ pairs[i][2] = params[pairs[i][1]]
    /\ \A i \in DOMAIN pairs : \A j \in DOMAIN pairs :
          i < j => TextLess(pairs[i][1], pairs[j][1])

Signed == pc = "done" /\ Len(hist) = 1 /\ Len(probes) = 1

\* C35: build_query emits the keys in ascending order and its output
\* decodes to exactly the pairs it was given; the string signed is that
\* serialization of the caller's parameters plus recvWindow ("5000" unless
\* the caller gave one) plus timestamp; the signature parameter follows
\* the signed string in the url and is not part of it.
C35_QuerySerializer ==
    Signed =>
        /\ SerializationOf(hist[1].plain, req.params)
        /\ SerializationOf(hist[1].query, hist[1].q)
        /\ DOMAIN hist[1].q = DOMAIN req.params \cup {K_recvWindow, K_timestamp}
        /\ \A k \in DOMAIN req.params \ {K_timestamp} : hist[1].q[k] = req.params[k]
        /\ K_recvWindow \notin DOMAIN req.params =>
              hist[1].q[K_recvWindow] = <<"5", "0", "0", "0">>
        /\ hist[1].q[K_timestamp] = req.now
        /\ hist[1].signature = sign(hist[1].query, req.api_secret)
        /\ Decode(probes[1]) =
              Decode(hist[1].query) \o <<<<K_signature, hist[1].signature>>>>
        /\ \A i \in DOMAIN Decode(hist[1].query) :
              Decode(hist[1].query)[i][1] # K_signature

\* Two parameters whose texts need escaping, one of them a recvWindow of
\* the caller, were signed.
C35_Witness ==
    /\ Signed
    /\ DOMAIN req.params = {K_recvWindow, <<"a", "&">>}
    /\ req.params[K_recvWindow] = <<"1", "+", "1">>
    /\ req.params[<<"a", "&">>] = <<"a", "&", "b", "=", "c">>
    /\ Decode(probes[1])[1][1] = <<"a", "&">>

----------------------------------------------------------------------------
(* Sessions and the TOTP gate: login, logout, totp_setup_start,            *)
(* totp_setup_confirm (main.py 409-532), get_fernet_from_request (130-139) *)
(* and the handlers that load credentials before they call an exchange     *)
(* (query_orders, cancel_orders, lookup_order, detect_binance_account_     *)
(* mode).  The handlers are plain def functions, which the server runs     *)
(* in a thread pool: requests interleave.  A session id is the number of   *)
(* the login that created it, 0 a request without the cookie.  A TOTP      *)
(* code is valid for a secret when it is the code of that secret, written  *)
(* as the secret itself.                                                   *)
(*   hist[sid]: whether the login that created session sid presented the   *)
(*   code of the secret stored then, whether the session confirmed its     *)
(*   pending secret with the code of that secret, whether it logged out.   *)
(*   req: the setup-confirm requests between their checks and their write. *)
(*   fs: the running operation.  probes: the exchange requests it sent.    *)
(*   results: the response of the last credential load, the response the   *)
(*   same request gets when the stored credentials of its pair differ, and *)
(*   what held of the session of the request when it arrived.              *)
(*   lastResp: the last write of the TOTP secret.                          *)

MasterKeys == {"k1", "k2"}
TotpSecrets == {"S1", "S2"}
TotpCodes == TotpSecrets \cup {""}

Session(fernet, totp_verified, pending_totp) ==
    [fernet |-> fernet, totp_verified |-> totp_verified, pending_totp |-> pending_totp]

HttpError(status, detail) == [status |-> status, detail |-> detail]
HttpOk == HttpError(200, "")

\* get_session: the HTTPException it raises, HttpOk when it returns
get_session(store, sid) ==
    IF sid = 0 THEN HttpError(401, "Not logged in")
    ELSE IF sid \notin DOMAIN store THEN HttpError(401, "Session expired")
    ELSE HttpOk

\* variant: the TOTP flag of the session is not looked at
get_fernet_from_requestMut(store, m, sid) == get_session(store, sid)
\* get_fernet_from_request: the HTTPException it raises, HttpOk when it
\* returns session["fernet"]
get_fernet_from_request(store, m, sid) ==
    IF get_session(store, sid) # HttpOk THEN get_session(store, sid)
    ELSE IF ~m.set THEN HttpError(403, "TOTP setup required")
    ELSE IF ~store[sid].totp_verified
    THEN HttpError(401, "TOTP verification required")
    ELSE HttpOk

\* A row of credentials: key is the fernet key its texts were encrypted
\* with, passphrase_column whether the table of the file has the column
\* api_passphrase_enc (init_db creates the table without it and keeps the
\* table of an existing file).
AuthRow(exchange, label, key, passphrase_column) ==
    [exchange |-> exchange, label |-> label, key |-> key,
     passphrase_column |-> passphrase_column]
AuthTables ==
    {{}, {AuthRow(EXCHANGE_BINANCE, "main", "k1", TRUE)},
     {AuthRow(EXCHANGE_BINANCE, "main", "k1", FALSE)}}

\* load_exchange_credentials(conn, request, exchange, label): the
\* HTTPException it raises, HttpOk when it returns the credentials
load_credentials_of_request(tbl, store, m, sid, exchange, label) ==
    LET first == get_credentials(tbl, exchange, label)
        rows == IF first = {} /\ exchange = EXCHANGE_OKX
                THEN get_credentials(tbl, "okex", label) ELSE first
    IN  IF rows = {}
        THEN HttpError(400, "credentials not set")
        ELSE IF get_fernet_from_request(store, m, sid) # HttpOk
        THEN get_fernet_from_request(store, m, sid)
        ELSE LET row == CHOOSE r \in rows : TRUE IN
             IF row.key # store[sid].fernet \/ ~row.passphrase_column
             THEN HttpError(400, "Failed to decrypt credentials")
             ELSE HttpOk

\* The handlers up to the exchange calls: the label is checked, the
\* credentials are loaded.
OperationEntry(tbl, store, m, sid, exchange, label) ==
    IF normalize_label(label) = "" THEN HttpError(400, "Account is required")
    ELSE load_credentials_of_request(tbl, store, m, sid, exchange,
                                     normalize_label(label))

\* The table with the row of the pair taken out, or put in.
OtherTable(tbl, exchange, label) ==
    IF get_credentials(tbl, exchange, label) # {}
    THEN tbl \ get_credentials(tbl, exchange, label)
    ELSE tbl \cup {AuthRow(exchange, label, "k1", TRUE)}

\* A write of the TOTP secret by session sid: replaced tells that a secret
\* was stored before it, verified_before the totp_verified of the session
\* when it wrote.
SecretWrite(sid, replaced, verified_before) ==
    [sid |-> sid, replaced |-> replaced, verified_before |-> verified_before]
NoWrite == SecretWrite(0, FALSE, FALSE)

SessionHistory(login_code, confirmed, out) ==
    [login_code |-> login_code, confirmed |-> confirmed, out |-> out]

NoGate == [in_store |-> FALSE, enabled |-> FALSE, verified |-> FALSE]
AuthIdle == [st |-> "idle", sid |-> 0, kind |-> "", sent |-> 0, loads |-> 0,
             gate |-> NoGate]
Cookies == 0..Len(hist)
AuthFrame == UNCHANGED <<pc, cred, selected, idx, orders, errors, outcome, abort,
                         credentials_table>>

\* variant: every new session counts as verified
LoginVerifiedMut(m) == TRUE
\* "totp_verified": totp_enc is not None
LoginVerified(m) == m.set

\* login, lines 409-453: the HTTPException it raises, HttpOk when the
\* session is created
LoginChecks(tbl, m, master_key, totp_code) ==
    IF tbl # {} /\ (CHOOSE r \in tbl : TRUE).key # master_key
    THEN HttpError(400, "Invalid master key")
    ELSE IF ~m.set THEN HttpOk
    ELSE IF totp_code = "" THEN HttpError(400, "TOTP code required")
    ELSE IF m.key # master_key THEN HttpError(400, "Failed to decrypt TOTP secret")
    ELSE IF totp_code # m.secret THEN HttpError(400, "Invalid TOTP code")
    ELSE HttpOk

\* POST /api/login
Login(master_key, totp_code) ==
    /\ pc = "serve"
    /\ Len(hist) < MaxSessions
    /\ LET r == LoginChecks(credentials_table, meta, master_key, totp_code)
           sid == Len(hist) + 1
       IN  IF r # HttpOk
           THEN UNCHANGED <<SESSION_STORE, hist>>
           ELSE /\ SESSION_STORE' =
                      SESSION_STORE @@ (sid :> Session(master_key, LoginVerified(meta), ""))
                /\ hist' = Append(hist, SessionHistory(
                                       meta.set /\ totp_code = meta.secret, FALSE, FALSE))
    /\ UNCHANGED <<req, fs, probes, results, meta, lastResp>>
    /\ AuthFrame

\* POST /api/logout
Logout(sid) ==
    /\ pc = "serve"
    /\ SESSION_STORE' = [i \in DOMAIN SESSION_STORE \ {sid} |-> SESSION_STORE[i]]
    /\ hist' = [i \in DOMAIN hist |-> IF i = sid THEN [hist[i] EXCEPT !.out = TRUE]
                                      ELSE hist[i]]
    /\ UNCHANGED <<req, fs, probes, results, meta, lastResp>>
    /\ AuthFrame

\* The checks setup-start and setup-confirm begin with.
SetupAllowed(store, m, sid) ==
    IF get_session(store, sid) # HttpOk THEN get_session(store, sid)
    ELSE IF m.set /\ ~store[sid].totp_verified
    THEN HttpError(401, "TOTP verification required")
    ELSE HttpOk

\* POST /api/2fa/setup/start; it writes to its own session only
totp_setup_start(sid, secret) ==
    /\ pc = "serve"
    /\ LET r == SetupAllowed(SESSION_STORE, meta, sid) IN
       /\ SESSION_STORE' =
             IF r = HttpOk
             THEN [SESSION_STORE EXCEPT ![sid].pending_totp = secret]
             ELSE SESSION_STORE
    /\ UNCHANGED <<req, fs, probes, results, meta, hist, lastResp>>
    /\ AuthFrame

\* totp_setup_confirm, lines 511-522: the HTTPException it raises, HttpOk
\* when the code was verified
ConfirmChecks(store, m, sid, code) ==
    IF SetupAllowed(store, m, sid) # HttpOk THEN SetupAllowed(store, m, sid)
    ELSE IF store[sid].pending_totp = "" THEN HttpError(400, "No pending TOTP setup")
    ELSE IF code # store[sid].pending_totp THEN HttpError(400, "Invalid TOTP code")
    ELSE HttpOk

\* POST /api/2fa/setup/confirm up to the verification of the code
ConfirmCheck(sid, code) ==
    /\ pc = "serve"
    /\ \A c \in req : c.sid # sid
    /\ LET r == ConfirmChecks(SESSION_STORE, meta, sid, code) IN
       IF r # HttpOk
       THEN UNCHANGED req
       ELSE req' = req \cup {[sid |-> sid, code |-> code,
                              secret |-> SESSION_STORE[sid].pending_totp,
                              fernet |-> SESSION_STORE[sid].fernet]}
    /\ UNCHANGED <<SESSION_STORE, meta, hist, fs, probes, results, lastResp>>
    /\ AuthFrame

\* the session dict the handler holds: session["totp_verified"]
HeldVerified(sid) ==
    IF sid \in DOMAIN SESSION_STORE THEN SESSION_STORE[sid].totp_verified
    ELSE FALSE

\* totp_setup_confirm, lines 524-532: db.set_meta and the session update
ConfirmWrite(c) ==
    /\ pc = "serve"
    /\ c \in req
    /\ req' = req \ {c}
    /\ meta' = [set |-> TRUE, secret |-> c.secret, key |-> c.fernet]
    /\ SESSION_STORE' =
          IF c.sid \in DOMAIN SESSION_STORE
          THEN [SESSION_STORE EXCEPT ![c.sid] = Session(c.fernet, TRUE, "")]
          ELSE SESSION_STORE
    /\ hist' = [hist EXCEPT ![c.sid].confirmed = (c.code = c.secret)]
    /\ lastResp' = SecretWrite(c.sid, meta.set, HeldVerified(c.sid))
    /\ UNCHANGED <<fs, probes, results>>
    /\ AuthFrame

OperationKinds == {"query", "cancel", "lookup", "account_mode"}

\* A query, cancel, lookup or account-mode request up to the return of
\* load_exchange_credentials.
OperationLoad(sid, kind, label) ==
    /\ pc = "serve"
    /\ fs.st = "idle"
    /\ LET r == OperationEntry(credentials_table, SESSION_STORE, meta, sid,
                               EXCHANGE_BINANCE, label)
           other == OperationEntry(OtherTable(credentials_table, EXCHANGE_BINANCE,
                                              normalize_label(label)),
                                   SESSION_STORE, meta, sid, EXCHANGE_BINANCE, label)
           gate == [in_store |-> sid \in DOMAIN SESSION_STORE,
                    enabled |-> meta.set,
                    verified |-> HeldVerified(sid)]
       IN  /\ results' = <<[kind |-> kind, response |-> r, other |-> other,
                             gate |-> gate]>>
           /\ fs' = IF r # HttpOk THEN AuthIdle
                    ELSE [st |-> "run", sid |-> sid, kind |-> kind, sent |-> 0,
                          loads |-> 1, gate |-> gate]
    /\ probes' = <<>>
    /\ UNCHANGED <<req, SESSION_STORE, meta, hist, lastResp>>
    /\ AuthFrame

\* The operation sends a request to the exchange.
OperationRequest ==
    /\ pc = "serve"
    /\ fs.st = "run"
    /\ fs.sent < MaxSends
    /\ probes' = Append(probes, [sid |-> fs.sid, kind |-> fs.kind, loads |-> fs.loads,
                                 gate |-> fs.gate, enabled |-> meta.set,
                                 in_store |-> fs.sid \in DOMAIN SESSION_STORE])
    /\ fs' = [fs EXCEPT !.sent = fs.sent + 1]
    /\ UNCHANGED <<req, SESSION_STORE, meta, hist, results, lastResp>>
    /\ AuthFrame

\* The operation returns.
OperationDone ==
    /\ pc = "serve"
    /\ fs.st = "run"
    /\ fs' = AuthIdle
    /\ UNCHANGED <<req, SESSION_STORE, meta, hist, results, lastResp, probes>>
    /\ AuthFrame

InitAuth ==
    /\ pc = "serve"
    /\ req = {}
    /\ cred = NoCred /\ selected = <<>> /\ idx = 0 /\ fs = AuthIdle
    /\ orders = <<>> /\ errors = <<>> /\ results = <<>>
    /\ outcome = "none" /\ abort = "" /\ probes = <<>> /\ hist = <<>>
    /\ lastResp = NoWrite
    /\ credentials_table \in {tbl \in AuthTables : \A r \in tbl : r.passphrase_column}
    /\ SESSION_STORE = <<>>
    /\ meta = NoMeta

NextAuth ==
    \/ \E k \in MasterKeys, code \in TotpCodes : Login(k, code)
    \/ \E sid \in Cookies : Logout(sid)
    \/ \E sid \in Cookies, secret \in TotpSecrets : totp_setup_start(sid, secret)
    \/ \E sid \in Cookies, code \in TotpCodes : ConfirmCheck(sid, code)
    \/ \E c \in req : ConfirmWrite(c)

SpecAuth == InitAuth /\ [][NextAuth]_vars

\* States the session requests lead to: nobody logged in; session 1
\* logged in before any secret was stored; session 1 confirmed its secret;
\* session 2 logged in before session 1 confirmed, with either master key;
\* session 1 confirmed and logged out.
StoredSecret == [set |-> TRUE, secret |-> "S1", key |-> "k1"]
GateStates ==
    {[store |-> <<>>, meta |-> NoMeta, hist |-> <<>>],
     [store |-> <<Session("k1", FALSE, "")>>, meta |-> NoMeta,
      hist |-> <<SessionHistory(FALSE, FALSE, FALSE)>>],
     [store |-> <<Session("k1", TRUE, "")>>, meta |-> StoredSecret,
      hist |-> <<SessionHistory(FALSE, TRUE, FALSE)>>],
     [store |-> <<Session("k1", TRUE, ""), Session("k1", FALSE, "")>>,
      meta |-> StoredSecret,
      hist |-> <<SessionHistory(FALSE, TRUE, FALSE), SessionHistory(FALSE, FALSE, FALSE)>>],
     [store |-> <<Session("k1", TRUE, ""), Session("k2", FALSE, "")>>,
      meta |-> StoredSecret,
      hist |-> <<SessionHistory(FALSE, TRUE, FALSE), SessionHistory(FALSE, FALSE, FALSE)>>],
     [store |-> <<>>, meta |-> StoredSecret,
      hist |-> <<SessionHistory(FALSE, TRUE, TRUE)>>]}

InitGate ==
    /\ pc = "serve"
    /\ req = {}
    /\ cred = NoCred /\ selected = <<>> /\ idx = 0 /\ fs = AuthIdle
    /\ orders = <<>> /\ errors = <<>> /\ results = <<>>
    /\ outcome = "none" /\ abort = "" /\ probes = <<>>
    /\ lastResp = NoWrite
    /\ credentials_table \in AuthTables
    /\ \E g \in GateStates :
          SESSION_STORE = g.store /\ meta = g.meta /\ hist = g.hist

\* The operations, and the logouts that arrive while they run.
NextGate ==
    \/ \E sid \in Cookies, kind \in OperationKinds, label \in {"main", "alt", " "} :
          OperationLoad(sid, kind, label)
    \/ OperationRequest
    \/ OperationDone
    \/ \E sid \in Cookies : Logout(sid)

SpecGate == InitGate /\ [][NextGate]_vars

----------------------------------------------------------------------------
(* Properties of the sessions and of the TOTP gate.                        *)

Passed(gate) == gate.in_store /\ gate.enabled /\ gate.verified

C37_VerifiedOnlyByCode ==
    /\ \A sid \in DOMAIN SESSION_STORE :
          SESSION_STORE[sid].totp_verified =>
              hist[sid].login_code \/ hist[sid].confirmed
    /\ \A sid \in DOMAIN hist :
          hist[sid].out =>
              /\ sid \notin DOMAIN SESSION_STORE
              /\ get_session(SESSION_STORE, sid).status = 401
              /\ get_fernet_from_request(SESSION_STORE, meta, sid).status = 401
              /\ SetupAllowed(SESSION_STORE, meta, sid).status = 401
              /\ \A code \in TotpCodes :
                    ConfirmChecks(SESSION_STORE, meta, sid, code).status = 401

\* Session 1 confirmed a secret and logged out; session 2 was created by a
\* login with the code of that secret.
C37_Witness ==
    /\ Len(hist) = 2
    /\ hist[1].confirmed /\ hist[1].out
    /\ hist[2].login_code /\ ~hist[2].confirmed
    /\ 2 \in DOMAIN SESSION_STORE
    /\ SESSION_STORE[2].totp_verified

\* C38: under every interleaving of setup-start and setup-confirm
\* requests, a stored TOTP secret is replaced only by a session that was
\* TOTP-verified when it wrote.  Under SpecAuth.
C38_NoOverwriteByUnverified ==
    (lastResp.sid # 0 /\ lastResp.replaced) => lastResp.verified_before

\* C39: a query, cancel, lookup or account-mode request whose session is
\* missing, or not TOTP-verified, gets the same response whether or not
\* credentials are stored for its (exchange, account) pair.  Under SpecGate.
C39_NonInterference ==
    (results # <<>> /\ ~Passed(results[1].gate)) =>
        results[1].response = results[1].other

============================================================================
